---- MODULE Spec2Model ----
(***************************************************************************)
(* A state-machine model of the LicenseSeat JavaScript SDK                 *)
(* (src/src/LicenseSeat.js, src/src/cache.js, src/src/utils.js).           *)
(*                                                                         *)
(* The SDK is single-threaded and cooperative: every handler runs without  *)
(* interruption up to its next network await.  One action of the model is  *)
(* one such run; a request that is awaiting its answer is an element of    *)
(* the bag `calls`, and the answer of the network resumes it.              *)
(***************************************************************************)
EXTENDS Integers, Sequences, FiniteSets, Bags, TLC

(***************************************************************************)
(* Bounds of the model.                                                    *)
(***************************************************************************)
\* requests that may await the network at the same time
MaxCalls == 2
\* largest value of config.maxRetries that is explored
MaxRetriesBound == 1

(***************************************************************************)
(* Values.                                                                 *)
(***************************************************************************)
\* null / undefined for references, handles and strings
Null == "null"
\* "no timestamp": a missing store key or a falsy number
NoTs == 0

\* License keys are strings; a string is the sequence of its char codes.
EmptyStr == << >>
\* null where a license key is expected; like the empty string it is falsy, and
\* no license key explored is empty
NoKey == << >>
KeyA == <<1, 1>>
KeyB == <<1, 2>>
Keys == {KeyA, KeyB}
\* what the payload of an offline token may carry as license_key
TokenKeys == Keys \cup {EmptyStr, <<1>>}

KeyId == "kid-1"

SecMs == 1000
DayMs == 24 * 60 * 60 * SecMs
\* DEFAULT_CONFIG.maxClockSkewMs
DefaultSkewMs == 5 * 60 * SecMs
\* the grace period used by the documentation and the boundary scenarios
GraceDays == 7

\* A reference instant (the time of the last online contact in the scenarios).
Pivot == 2 * DayMs
\* the instants the local clock takes
ClockValues ==
    { Pivot - DefaultSkewMs - SecMs, Pivot - DefaultSkewMs + SecMs,
      Pivot + SecMs,
      Pivot + GraceDays * DayMs - SecMs, Pivot + GraceDays * DayMs + SecMs }

\* Entitlements: {key, expires_at}; expires_at = NoTs is "no expiry".
EntPro == [key |-> "pro", expires_at |-> NoTs]
EntProOld == [key |-> "pro", expires_at |-> Pivot]
EntSets == { {}, {EntPro}, {EntProOld} }
EntitlementKeys == {"pro", "team"}

(***************************************************************************)
(* ValidationResult / CachedLicense.validation.                            *)
(***************************************************************************)
NoResult == [present |-> FALSE, valid |-> FALSE, offline |-> FALSE,
             code |-> Null, active_entitlements |-> {}]

Result(valid, offline, code, ents) ==
    [present |-> TRUE, valid |-> valid, offline |-> offline,
     code |-> code, active_entitlements |-> ents]

OfflineFailure(code) == Result(FALSE, TRUE, code, {})

(***************************************************************************)
(* CachedLicense and OfflineToken records of the store.                    *)
(***************************************************************************)
NoLicense == [present |-> FALSE, license_key |-> EmptyStr, activated_at |-> NoTs,
              last_validated |-> NoTs, validation |-> NoResult]

NoToken == [present |-> FALSE, license_key |-> EmptyStr, exp |-> 0, kid |-> Null,
            sig |-> "missing", entitlements |-> {}, active_ents |-> {}]

\* sig: what the signature block of the token is:
\*   "good"    verifies under the key of kid,   "bad"  does not verify,
\*   "garbled" cannot be decoded / has the wrong length (the primitive throws),
\*   "missing" the token object lacks signature or canonical form.
SigKinds == {"good", "bad", "garbled", "missing"}

Token(k, exp, kid, sig, ents) ==
    [present |-> TRUE, license_key |-> k, exp |-> exp, kid |-> kid, sig |-> sig,
     entitlements |-> ents, active_ents |-> {}]

\* token.exp is in seconds since the epoch; 0 / absent is "no expiry"
ExpChoices == {0, Pivot \div SecMs, (Pivot + 10 * DayMs) \div SecMs}

(***************************************************************************)
(* Errors and network outcomes.                                            *)
(***************************************************************************)
\* fetch() rejects with TypeError("... fetch ..."): the transport failed
TransportError == [type |-> "TypeError", status |-> 0]
APIError(status) == [type |-> "APIError", status |-> status]
NoError == [type |-> Null, status |-> 0]
\* what response.json() raises on a body that is not JSON
ParseError == [type |-> "SyntaxError", status |-> 0]
\* the error one attempt of apiCall ends with when the response has an error
\* status: the body is parsed before the status is looked at
ResponseError(status, json) == IF json THEN APIError(status) ELSE ParseError

(***************************************************************************)
(* State.                                                                  *)
(***************************************************************************)
VARIABLES
    config,                 \* this.config (fixed at construction)
    cryptoAvailable,        \* ed && ed.verify && ed.etc.sha512Sync
    now,                    \* Date.now() of the local clock
    license,                \* store: <prefix>license
    offlineToken,           \* store: <prefix>offline_token
    publicKeys,             \* store: <prefix>public_keys (the key ids held)
    lastSeen,               \* store: <prefix>last_seen_ts
    validationTimer,        \* this.validationTimer: NoKey or the key its closure validates
    heartbeatTimer,         \* this.heartbeatTimer is set
    connectivityTimer,      \* this.connectivityTimer is set
    offlineRefreshTimer,    \* this.offlineRefreshTimer is set
    online,                 \* this.online
    currentAutoLicenseKey,  \* this.currentAutoLicenseKey
    syncingOfflineAssets,   \* this.syncingOfflineAssets
    destroyed,              \* this.destroyed
    calls,                  \* bag of requests awaiting the network
    emitted,                \* the network:* event the step just taken emitted
    lastNetworkEvent,       \* history: the last network:* event emitted so far
    wentOfflineFor,         \* history: the key the validation timer ran for when
                            \* the client went offline; NoKey once online again
    eventListeners,         \* this.eventListeners: the events with a handler
    live,                   \* per timer, the intervals set and not yet cleared
    ret                     \* what the step just taken returned or raised

vars == << config, cryptoAvailable, now, license, offlineToken, publicKeys, lastSeen,
           validationTimer, heartbeatTimer, connectivityTimer, offlineRefreshTimer,
           online, currentAutoLicenseKey, syncingOfflineAssets, destroyed, calls,
           emitted, lastNetworkEvent, wentOfflineFor, eventListeners, live, ret >>

\* The mutable state of the instance and of its store, as one record: a handler
\* is a composition of functions over it.
S == [license |-> license, offlineToken |-> offlineToken, publicKeys |-> publicKeys,
      lastSeen |-> lastSeen, validationTimer |-> validationTimer,
      heartbeatTimer |-> heartbeatTimer, connectivityTimer |-> connectivityTimer,
      offlineRefreshTimer |-> offlineRefreshTimer, online |-> online,
      currentAutoLicenseKey |-> currentAutoLicenseKey,
      syncingOfflineAssets |-> syncingOfflineAssets, destroyed |-> destroyed,
      calls |-> calls, emitted |-> Null, lastNetworkEvent |-> lastNetworkEvent,
      wentOfflineFor |-> wentOfflineFor, eventListeners |-> eventListeners,
      live |-> live]

\* entitlements.find(...) found nothing
NoEntitlement == [key |-> Null, expires_at |-> NoTs]
NoCheck == [active |-> FALSE, reason |-> Null, entitlement |-> NoEntitlement]

\* What a step reports: the operation, how it ended, and what it observed.
NoRet == [op |-> Null, kind |-> "none", err |-> Null, error |-> NoError, key |-> EmptyStr,
          origin |-> Null, res |-> NoResult, signed |-> NoToken, keySource |-> Null,
          lastSeenBefore |-> NoTs, offlineResult |-> NoResult,
          attempt |-> 0, delay |-> 0, status |-> 0, sync |-> Null,
          arg |-> Null, ent |-> NoCheck, has |-> FALSE, state |-> Null,
          reported |-> {}, delivered |-> {}]

Commit(s, r) ==
    /\ license' = s.license
    /\ offlineToken' = s.offlineToken
    /\ publicKeys' = s.publicKeys
    /\ lastSeen' = s.lastSeen
    /\ validationTimer' = s.validationTimer
    /\ heartbeatTimer' = s.heartbeatTimer
    /\ connectivityTimer' = s.connectivityTimer
    /\ offlineRefreshTimer' = s.offlineRefreshTimer
    /\ online' = s.online
    /\ currentAutoLicenseKey' = s.currentAutoLicenseKey
    /\ syncingOfflineAssets' = s.syncingOfflineAssets
    /\ destroyed' = s.destroyed
    /\ calls' = s.calls
    /\ emitted' = s.emitted
    /\ lastNetworkEvent' = s.lastNetworkEvent
    /\ wentOfflineFor' = s.wentOfflineFor
    /\ eventListeners' = s.eventListeners
    /\ live' = s.live
    /\ ret' = r
    /\ UNCHANGED << config, cryptoAvailable, now >>

(***************************************************************************)
(* Requests awaiting the network.                                          *)
(*   op      the request: "activate", "deactivate", "validate",            *)
(*           "heartbeat", "offline_token", "signing_key", "health"         *)
(*   key     the license key the caller captured before the await          *)
(*   attempt the loop counter of apiCall                                   *)
(*   origin  the operation that awaits the request                         *)
(*   caller  who started that operation, when origin is "validate"         *)
(*   signed  the offline token the caller read before the await            *)
(*   error   the error the caller is handling while it awaits              *)
(***************************************************************************)
Call(op, key, origin) ==
    [op |-> op, key |-> key, attempt |-> 0, origin |-> origin, caller |-> Null,
     signed |-> NoToken, error |-> NoError]

InFlight == BagToSet(calls)
NumCalls == BagCardinality(calls)
CanCall == NumCalls < MaxCalls

AddCall(s, c) == [s EXCEPT !.calls = @ (+) SetToBag({c})]
RemoveCall(s, c) == [s EXCEPT !.calls = @ (-) SetToBag({c})]

(***************************************************************************)
(* cache.js                                                                *)
(***************************************************************************)
\* LicenseCache.setLicense
SetLicense(s, data) == [s EXCEPT !.license = data]

\* Faulty variant of UpdateValidation: the validation is never written.
UpdateValidationLost(s, validationData) == s

\* Faulty variant of UpdateValidation: a license record is created when none
\* is cached.
UpdateValidationUpserts(s, validationData) ==
    SetLicense(s, [s.license EXCEPT !.present = TRUE,
                                    !.validation = validationData,
                                    !.last_validated = now])

\* LicenseCache.updateValidation: replaces the validation of the cached license
\* and stamps last_validated; does nothing when no license is cached.
UpdateValidation(s, validationData) ==
    IF s.license.present
    THEN SetLicense(s, [s.license EXCEPT !.validation = validationData,
                                         !.last_validated = now])
    ELSE s

\* LicenseCache.clearLicense
ClearLicense(s) == [s EXCEPT !.license = NoLicense]

\* LicenseCache.setOfflineToken
SetOfflineToken(s, data) == [s EXCEPT !.offlineToken = data]

\* LicenseCache.clearOfflineToken
ClearOfflineToken(s) == [s EXCEPT !.offlineToken = NoToken]

\* LicenseCache.getPublicKey: the cached key of keyId, or null
GetPublicKey(s, keyId) == IF keyId \in s.publicKeys THEN keyId ELSE Null

\* LicenseCache.setPublicKey
SetPublicKey(s, keyId) == [s EXCEPT !.publicKeys = @ \cup {keyId}]

\* LicenseCache.clear: removes every key under the prefix
\* Faulty variant of CacheClear: the public keys are left in the store.
CacheClearKeepsPublicKeys(s) ==
    [s EXCEPT !.license = NoLicense, !.offlineToken = NoToken, !.lastSeen = NoTs]

CacheClear(s) ==
    [s EXCEPT !.license = NoLicense, !.offlineToken = NoToken,
              !.publicKeys = {}, !.lastSeen = NoTs]

\* LicenseCache.setLastSeenTimestamp
SetLastSeenTimestamp(s, ts) == [s EXCEPT !.lastSeen = ts]

(***************************************************************************)
(* utils.js                                                                *)
(***************************************************************************)
RECURSIVE BitXor(_, _)
\* a ^ b on char codes
BitXor(a, b) ==
    IF a = 0 /\ b = 0 THEN 0
    ELSE (((a % 2) + (b % 2)) % 2) + 2 * BitXor(a \div 2, b \div 2)

RECURSIVE BitOr(_, _)
\* a | b
BitOr(a, b) ==
    IF a = 0 /\ b = 0 THEN 0
    ELSE (IF (a % 2) = 1 \/ (b % 2) = 1 THEN 1 ELSE 0) + 2 * BitOr(a \div 2, b \div 2)

RECURSIVE XorFold(_, _, _, _)
\* the loop of constantTimeEqual: res |= a.charCodeAt(i) ^ b.charCodeAt(i)
XorFold(a, b, i, res) ==
    IF i > Len(a) THEN res
    ELSE XorFold(a, b, i + 1, BitOr(res, BitXor(a[i], b[i])))

\* Faulty variant of ConstantTimeEqual: only the lengths are compared.
ConstantTimeEqualLengthOnly(a, b) == Len(a) = Len(b)

\* constantTimeEqual(a, b)
ConstantTimeEqual(a, b) ==
    IF Len(a) # Len(b) THEN FALSE ELSE XorFold(a, b, 1, 0) = 0

\* parseActiveEntitlements(payload): reads payload.active_ents (or
\* payload.active_entitlements), never payload.entitlements
ParseActiveEntitlements(payload) == payload.active_ents

(***************************************************************************)
(* Timers (LicenseSeat.js, "Auto-Validation & Connectivity").              *)
(***************************************************************************)
\* setInterval(...) and clearInterval(handle): the intervals of one timer
\* that are set and not cleared
NoIntervals == [validation |-> 0, heartbeat |-> 0, connectivity |-> 0, refresh |-> 0]
SetInterval(s, timer) == [s EXCEPT !.live[timer] = @ + 1]
ClearInterval(s, timer) == [s EXCEPT !.live[timer] = @ - 1]

\* stopAutoValidation
StopAutoValidation(s) ==
    IF s.validationTimer # NoKey
    THEN ClearInterval([s EXCEPT !.validationTimer = NoKey], "validation")
    ELSE s

\* Faulty variant of StartAutoValidation: the interval is not looked at.
StartAutoValidationAnyInterval(s, licenseKey) ==
    SetInterval([StopAutoValidation(s) EXCEPT !.currentAutoLicenseKey = licenseKey,
                                              !.validationTimer = licenseKey],
                "validation")

\* startAutoValidation(licenseKey)
StartAutoValidation(s, licenseKey) ==
    LET s1 == [StopAutoValidation(s) EXCEPT !.currentAutoLicenseKey = licenseKey]
    IN  IF config.autoValidateInterval <= 0
        THEN s1
        ELSE SetInterval([s1 EXCEPT !.validationTimer = licenseKey], "validation")

\* stopHeartbeat
StopHeartbeat(s) ==
    IF s.heartbeatTimer
    THEN ClearInterval([s EXCEPT !.heartbeatTimer = FALSE], "heartbeat")
    ELSE s

\* startHeartbeat
StartHeartbeat(s) ==
    LET s1 == StopHeartbeat(s)
    IN  IF config.heartbeatInterval <= 0
        THEN s1
        ELSE SetInterval([s1 EXCEPT !.heartbeatTimer = TRUE], "heartbeat")

\* stopConnectivityPolling
StopConnectivityPolling(s) ==
    IF s.connectivityTimer
    THEN ClearInterval([s EXCEPT !.connectivityTimer = FALSE], "connectivity")
    ELSE s

\* startConnectivityPolling
StartConnectivityPolling(s) ==
    IF s.connectivityTimer THEN s
    ELSE SetInterval([s EXCEPT !.connectivityTimer = TRUE], "connectivity")

\* if (this.offlineRefreshTimer) { clearInterval(...); this.offlineRefreshTimer = null }
StopOfflineRefresh(s) ==
    IF s.offlineRefreshTimer
    THEN ClearInterval([s EXCEPT !.offlineRefreshTimer = FALSE], "refresh")
    ELSE s

\* Faulty variant of ScheduleOfflineRefresh: the previous interval is not
\* cleared.
ScheduleOfflineRefreshLeaks(s) ==
    SetInterval([s EXCEPT !.offlineRefreshTimer = TRUE], "refresh")

\* scheduleOfflineRefresh
ScheduleOfflineRefresh(s) ==
    LET s1 == IF s.offlineRefreshTimer THEN ClearInterval(s, "refresh") ELSE s
    IN  SetInterval([s1 EXCEPT !.offlineRefreshTimer = TRUE], "refresh")

\* emit(event, data): the handlers invoked
Delivered(s, event) == IF event \in s.eventListeners THEN {event} ELSE {}

(***************************************************************************)
(* apiCall: one attempt of the retry loop.                                 *)
(***************************************************************************)
\* emit("network:offline") / emit("network:online")
EmitNetwork(s, event) == [s EXCEPT !.emitted = event, !.lastNetworkEvent = event]

\* this.online = true; this.emit("network:online")
BackOnline(s) ==
    EmitNetwork([s EXCEPT !.online = TRUE, !.wentOfflineFor = NoKey], "online")

\* the success branch of an attempt (response.ok)
\* Faulty variant of ApiCallSuccess: the online flag is not looked at before
\* the event is emitted.
ApiCallSuccessAlwaysEmits(s) ==
    LET s1 == StopConnectivityPolling(BackOnline(s))
    IN  IF s1.validationTimer = NoKey /\ s1.currentAutoLicenseKey # NoKey
        THEN StartAutoValidation(s1, s1.currentAutoLicenseKey)
        ELSE s1

ApiCallSuccess(s) ==
    LET s1 == StopConnectivityPolling(IF ~s.online THEN BackOnline(s) ELSE s)
    IN  IF s1.validationTimer = NoKey /\ s1.currentAutoLicenseKey # NoKey
        THEN StartAutoValidation(s1, s1.currentAutoLicenseKey)
        ELSE s1

\* networkFailure of the catch branch of an attempt
IsNetworkFailure(error) ==
    \/ error.type = "TypeError"
    \/ (error.type = "APIError" /\ error.status = 0)

\* the catch branch of an attempt, up to the retry decision
\* Faulty variant of ApiCallFailure: going offline also stops the heartbeat.
ApiCallFailureStopsHeartbeat(s, error) ==
    IF IsNetworkFailure(error) /\ s.online
    THEN StartConnectivityPolling(StopHeartbeat(StopAutoValidation(EmitNetwork(
             [s EXCEPT !.online = FALSE, !.wentOfflineFor = s.validationTimer],
             "offline"))))
    ELSE s

ApiCallFailure(s, error) ==
    IF IsNetworkFailure(error) /\ s.online
    THEN StartConnectivityPolling(StopAutoValidation(EmitNetwork(
             [s EXCEPT !.online = FALSE, !.wentOfflineFor = s.validationTimer],
             "offline")))
    ELSE s

\* shouldRetryError(error)
\* Faulty variant of ShouldRetryError: every 5xx status is retried.
ShouldRetryErrorAnyServerError(error) ==
    \/ error.type = "TypeError"
    \/ /\ error.type = "APIError"
       /\ \/ (error.status >= 500 /\ error.status < 600)
          \/ error.status \in {0, 408, 429}

ShouldRetryError(error) ==
    \/ error.type = "TypeError"
    \/ /\ error.type = "APIError"
       /\ \/ (error.status >= 502 /\ error.status < 600)
          \/ error.status \in {0, 408, 429}

\* shouldRetry of the catch branch: the loop sleeps and tries again
ShouldRetry(c, error) == c.attempt < config.maxRetries /\ ShouldRetryError(error)

\* the request as it awaits its next attempt
NextAttempt(c) == [c EXCEPT !.attempt = @ + 1]

RECURSIVE Pow2(_)
\* Math.pow(2, n)
Pow2(n) == IF n = 0 THEN 1 ELSE 2 * Pow2(n - 1)

\* delay = retryDelay * Math.pow(2, attempt), slept before the next attempt
\* Faulty variant of RetryDelay: the same delay before every retry.
RetryDelayConstant(c) == config.retryDelay

RetryDelay(c) == config.retryDelay * Pow2(c.attempt)

(***************************************************************************)
(* What the network may answer.                                            *)
(***************************************************************************)
\* the HTTP error statuses of the life-cycle specification (response.ok is
\* false)
ErrorStatuses == {404}
Errors == {TransportError} \cup {APIError(st) : st \in ErrorStatuses}

Ret(op, kind, origin) == [NoRet EXCEPT !.op = op, !.kind = kind, !.origin = origin]
\* r, reported when request c ended at the attempt it is in
After(c, r) == [r EXCEPT !.attempt = c.attempt]
Returned(op, origin) == Ret(op, "return", origin)
Raised(op, origin, err, error) ==
    [Ret(op, "throw", origin) EXCEPT !.err = err, !.error = error]

(***************************************************************************)
(* Offline verification (LicenseSeat.js, "Offline License Management").    *)
(***************************************************************************)
\* verifyOfflineToken(offlineTokenData, publicKeyB64): what it returns
\* ("true" / "false") or the error it raises ("Error" / "CryptoError")
VerifyOfflineToken(signed, pub) ==
    IF ~signed.present \/ signed.sig = "missing" \/ pub = Null THEN "Error"
    ELSE IF ~cryptoAvailable THEN "CryptoError"
    ELSE IF signed.sig = "garbled" THEN "Error"
    ELSE IF signed.sig = "good" THEN "true"
    ELSE "false"

\* expAt = token.exp ? token.exp * 1000 : null
ExpAt(token) == IF token.exp # 0 THEN token.exp * SecMs ELSE NoTs

\* Faulty variant of GracePivot: the later of the two timestamps.
GracePivotLatest(cached) ==
    IF cached.last_validated >= cached.activated_at
    THEN cached.last_validated ELSE cached.activated_at

\* pivot = cached.last_validated || cached.activated_at
GracePivot(cached) ==
    IF cached.last_validated # NoTs THEN cached.last_validated ELSE cached.activated_at

\* the grace-period check of verifyCachedOffline fails
GraceExceeded(signed, cached) ==
    /\ ExpAt(signed) = NoTs
    /\ config.maxOfflineDays > 0
    /\ GracePivot(cached) # NoTs
    /\ now - GracePivot(cached) > config.maxOfflineDays * DayMs

\* the clock-tamper check fails
\* Faulty variant of ClockTampered: the allowed skew is not added.
ClockTamperedNoSkew(s) ==
    s.lastSeen # NoTs /\ now < s.lastSeen

ClockTampered(s) ==
    s.lastSeen # NoTs /\ now + config.maxClockSkewMs < s.lastSeen

\* the license-key check fails
LicenseMismatch(signed, cached) ==
    ~cached.present \/ ~ConstantTimeEqual(signed.license_key, cached.license_key)

\* the expiry check fails
TokenExpired(signed) == ExpAt(signed) # NoTs /\ ExpAt(signed) < now

\* Faulty variant of VerifyChecks: the expiry is looked at before the license
\* key.
VerifyChecksExpiryFirst(s, signed, pub) ==
    LET ok == VerifyOfflineToken(signed, pub)
        fail(code) == [s |-> s, res |-> OfflineFailure(code), raised |-> Null]
    IN  IF ok \in {"Error", "CryptoError"}
        THEN [s |-> s, res |-> NoResult, raised |-> ok]
        ELSE IF ok = "false" THEN fail("signature_invalid")
        ELSE IF TokenExpired(signed) THEN fail("expired")
        ELSE IF LicenseMismatch(signed, s.license) THEN fail("license_mismatch")
        ELSE IF GraceExceeded(signed, s.license) THEN fail("grace_period_expired")
        ELSE IF ClockTampered(s) THEN fail("clock_tamper")
        ELSE [s |-> SetLastSeenTimestamp(s, now),
              res |-> Result(TRUE, TRUE, Null, ParseActiveEntitlements(signed)),
              raised |-> Null]

\* verifyCachedOffline once the public key is resolved: the body of the try
\* block.  Yields the state it leaves and the result it returns, or in `raised`
\* the error that leaves the block.
VerifyChecks(s, signed, pub) ==
    LET ok == VerifyOfflineToken(signed, pub)
        fail(code) == [s |-> s, res |-> OfflineFailure(code), raised |-> Null]
    IN  IF ok \in {"Error", "CryptoError"}
        THEN [s |-> s, res |-> NoResult, raised |-> ok]
        ELSE IF ok = "false" THEN fail("signature_invalid")
        ELSE IF LicenseMismatch(signed, s.license) THEN fail("license_mismatch")
        ELSE IF TokenExpired(signed) THEN fail("expired")
        ELSE IF GraceExceeded(signed, s.license) THEN fail("grace_period_expired")
        ELSE IF ClockTampered(s) THEN fail("clock_tamper")
        ELSE [s |-> SetLastSeenTimestamp(s, now),
              res |-> Result(TRUE, TRUE, Null, ParseActiveEntitlements(signed)),
              raised |-> Null]

\* Faulty variant of VerifyWithKey: the try block without its catch.
VerifyWithKeyNoCatch(s, signed, pub) == VerifyChecks(s, signed, pub)

\* the try block with its catch: whatever is raised inside becomes the result
\* verification_error
VerifyWithKey(s, signed, pub) ==
    LET t == VerifyChecks(s, signed, pub)
    IN  IF t.raised # Null
        THEN [s |-> s, res |-> OfflineFailure("verification_error"), raised |-> Null]
        ELSE t

\* quickVerifyCachedOfflineLocal: the result, NoResult for null; it writes nothing
QuickVerifyCachedOfflineLocal(s) ==
    LET signed == s.offlineToken
        pub == IF signed.kid # Null THEN GetPublicKey(s, signed.kid) ELSE Null
        ok == VerifyOfflineToken(signed, pub)
    IN  IF ~signed.present THEN NoResult
        ELSE IF pub = Null THEN NoResult
        ELSE IF ok \in {"Error", "CryptoError"} THEN OfflineFailure("verification_error")
        ELSE IF ok = "false" THEN OfflineFailure("signature_invalid")
        ELSE IF LicenseMismatch(signed, s.license) THEN OfflineFailure("license_mismatch")
        ELSE IF TokenExpired(signed) THEN OfflineFailure("expired")
        ELSE IF ClockTampered(s) THEN OfflineFailure("clock_tamper")
        ELSE Result(TRUE, TRUE, Null, ParseActiveEntitlements(signed))

\* verifyCachedOffline up to its first await.  Yields
\*   done = TRUE  with the state and the result, or
\*   done = FALSE with the state in which the signing key is being fetched;
\*                `waiter` is the request as the caller awaits it.
VerifyCachedOfflineBegin(s, waiter) ==
    LET signed == s.offlineToken
        kid == signed.kid
        pub == IF kid # Null THEN GetPublicKey(s, kid) ELSE Null
        out(s1, res, src, raised) ==
            [done |-> TRUE, s |-> s1, res |-> res, signed |-> signed,
             keySource |-> src, raised |-> raised]
    IN  IF ~signed.present
        THEN out(s, OfflineFailure("no_offline_token"), Null, Null)
        ELSE IF pub # Null
        THEN LET v == VerifyWithKey(s, signed, pub) IN out(v.s, v.res, "cached", v.raised)
        ELSE IF kid = Null
        THEN out(s, OfflineFailure("no_public_key"), "failed", Null)
        ELSE [done |-> FALSE,
              s |-> AddCall(s, [waiter EXCEPT !.signed = signed]),
              res |-> NoResult, signed |-> signed, keySource |-> Null, raised |-> Null]

\* verifyCachedOffline after getSigningKey answered: pub is the key, or Null
\* when getSigningKey raised
VerifyCachedOfflineResume(s, c, pub) ==
    IF pub = Null
    THEN [s |-> s, res |-> OfflineFailure("no_public_key"), raised |-> Null]
    ELSE VerifyWithKey(SetPublicKey(s, c.signed.kid), c.signed, pub)

VerifyRet(op, origin, res, signed, keySource, before) ==
    [Returned(op, origin) EXCEPT !.res = res, !.signed = signed,
                                 !.keySource = keySource, !.lastSeenBefore = before]

(***************************************************************************)
(* syncOfflineAssets.                                                      *)
(***************************************************************************)
\* Faulty variant of SyncSkipped: the in-flight flag is not looked at.
SyncSkippedWhenDestroyed(s) == s.destroyed

\* the guard of syncOfflineAssets: the invocation returns at once
SyncSkipped(s) == s.syncingOfflineAssets \/ s.destroyed

\* syncOfflineAssets up to its first await: takes the flag and calls
\* getOfflineToken, which raises before any request when the product slug or the
\* cached license is missing (the finally block then releases the flag)
SyncOfflineAssets(s) ==
    IF SyncSkipped(s) THEN s
    ELSE IF ~config.productSlug \/ ~s.license.present
    THEN [s EXCEPT !.syncingOfflineAssets = FALSE]
    ELSE AddCall([s EXCEPT !.syncingOfflineAssets = TRUE],
                 Call("offline_token", s.license.license_key, "sync"))

\* the end of the try block of syncOfflineAssets and its finally block
SyncVerifyAndRelease(s) ==
    LET res == QuickVerifyCachedOfflineLocal(s)
        s1 == IF res.present THEN UpdateValidation(s, res) ELSE s
    IN  [s1 EXCEPT !.syncingOfflineAssets = FALSE]

\* Faulty variant of SyncFailed: the finally block is missing.
SyncFailedKeepsFlag(s) == s

\* the catch and finally blocks of syncOfflineAssets
SyncFailed(s) == [s EXCEPT !.syncingOfflineAssets = FALSE]

\* syncOfflineAssets after getOfflineToken answered with `offline`
SyncTokenFetched(s, c, offline) ==
    LET s1 == SetOfflineToken(s, offline)
        kid == offline.kid
    IN  IF kid # Null /\ GetPublicKey(s1, kid) = Null
        THEN AddCall(s1, [Call("signing_key", c.key, "sync") EXCEPT !.signed = offline])
        ELSE SyncVerifyAndRelease(s1)

\* syncOfflineAssets after getSigningKey answered: pub is Null when it raised
SyncKeyFetched(s, c, pub) ==
    IF pub = Null THEN SyncFailed(s)
    ELSE SyncVerifyAndRelease(SetPublicKey(s, c.signed.kid))

(***************************************************************************)
(* activate / deactivate / heartbeat.                                      *)
(***************************************************************************)
\* activate after apiCall returned: the rest of the try block
ActivateSucceeded(s, licenseKey) ==
    LET licenseData == [present |-> TRUE, license_key |-> licenseKey,
                        activated_at |-> now, last_validated |-> now,
                        validation |-> NoResult]
        s1 == SetLicense(s, licenseData)
        s2 == UpdateValidation(s1, Result(TRUE, FALSE, Null, {}))
        s3 == StartAutoValidation(s2, licenseKey)
        s4 == StartHeartbeat(s3)
        s5 == SyncOfflineAssets(s4)
    IN  ScheduleOfflineRefresh(s5)

\* Faulty variant of DeactivateSucceeded: the heartbeat timer keeps running.
DeactivateSucceededKeepsHeartbeat(s) ==
    StopAutoValidation(ClearOfflineToken(ClearLicense(s)))

\* deactivate after apiCall returned: the rest of the try block
DeactivateSucceeded(s) ==
    StopHeartbeat(StopAutoValidation(ClearOfflineToken(ClearLicense(s))))

\* heartbeat up to its await (the product slug is configured): no request
\* without a cached license
HeartbeatBegin(s, origin) ==
    IF ~s.license.present THEN s
    ELSE AddCall(s, Call("heartbeat", s.license.license_key, origin))

(***************************************************************************)
(* Entitlements.                                                           *)
(***************************************************************************)
\* entitlements.find((e) => e.key === entitlementKey): the entitlement sets
\* explored hold at most one entitlement per key
FindEntitlement(entitlements, entitlementKey) ==
    IF \E e \in entitlements : e.key = entitlementKey
    THEN CHOOSE e \in entitlements : e.key = entitlementKey
    ELSE NoEntitlement

\* Faulty variant of CheckEntitlement: the expiry of the entitlement is not
\* looked at.
CheckEntitlementIgnoresExpiry(s, entitlementKey) ==
    LET entitlement == FindEntitlement(s.license.validation.active_entitlements,
                                       entitlementKey)
    IN  IF ~s.license.present \/ ~s.license.validation.present
        THEN [NoCheck EXCEPT !.reason = "no_license"]
        ELSE IF entitlement.key = Null
        THEN [NoCheck EXCEPT !.reason = "not_found"]
        ELSE [NoCheck EXCEPT !.active = TRUE, !.entitlement = entitlement]

\* checkEntitlement(entitlementKey)
CheckEntitlement(s, entitlementKey) ==
    LET entitlement == FindEntitlement(s.license.validation.active_entitlements,
                                       entitlementKey)
    IN  IF ~s.license.present \/ ~s.license.validation.present
        THEN [NoCheck EXCEPT !.reason = "no_license"]
        ELSE IF entitlement.key = Null
        THEN [NoCheck EXCEPT !.reason = "not_found"]
        ELSE IF entitlement.expires_at # NoTs /\ entitlement.expires_at < now
        THEN [NoCheck EXCEPT !.reason = "expired"]
        ELSE [NoCheck EXCEPT !.active = TRUE, !.entitlement = entitlement]

\* hasEntitlement(entitlementKey)
HasEntitlement(s, entitlementKey) == CheckEntitlement(s, entitlementKey).active

\* Faulty variant of GetStatus: an offline validation is reported like an
\* online one.
GetStatusIgnoresOffline(s) ==
    IF ~s.license.present THEN "inactive"
    ELSE IF ~s.license.validation.present THEN "pending"
    ELSE IF ~s.license.validation.valid THEN "invalid"
    ELSE "active"

\* getStatus(): the status field of the object returned
GetStatus(s) ==
    IF ~s.license.present THEN "inactive"
    ELSE IF ~s.license.validation.present THEN "pending"
    ELSE IF ~s.license.validation.valid
    THEN IF s.license.validation.offline THEN "offline-invalid" ELSE "invalid"
    ELSE IF s.license.validation.offline THEN "offline-valid"
    ELSE "active"

(***************************************************************************)
(* validateLicense.                                                        *)
(***************************************************************************)
\* the try block after apiCall returned rawResponse = [valid, code, ents]
ValidateSucceeded(s, licenseKey, raw) ==
    LET cachedLicense == s.license
        ents == IF /\ raw.ents = {}
                   /\ cachedLicense.present
                   /\ cachedLicense.validation.present
                   /\ cachedLicense.validation.active_entitlements # {}
                THEN cachedLicense.validation.active_entitlements
                ELSE raw.ents
        response == Result(raw.valid, FALSE, raw.code, ents)
        s1 == IF cachedLicense.present /\ cachedLicense.license_key = licenseKey
              THEN UpdateValidation(s, response)
              ELSE s
        s2 == IF response.valid
              THEN SetLastSeenTimestamp(s1, now)
              ELSE [StopAutoValidation(s1) EXCEPT !.currentAutoLicenseKey = NoKey]
    IN  [s |-> SetLastSeenTimestamp(s2, now), res |-> response]

\* isNetworkFailure of the catch block of validateLicense
ValidateIsNetworkFailure(error) ==
    \/ error.type = "TypeError"
    \/ (error.type = "APIError" /\ error.status \in {0, 408})

\* the catch block from "Persist invalid status from error response" on:
\* the state it leaves before it rethrows
ValidatePersistError(s, licenseKey, error) ==
    IF error.type # "APIError" THEN s
    ELSE LET s1 == IF s.license.present /\ s.license.license_key = licenseKey
                   THEN UpdateValidation(s, Result(FALSE, FALSE, "api_error", {}))
                   ELSE s
         IN  IF error.status \notin {0, 408, 429}
             THEN [StopAutoValidation(s1) EXCEPT !.currentAutoLicenseKey = NoKey]
             ELSE s1

\* the catch block once verifyCachedOffline returned offlineResult: the state
\* it leaves, and whether validateLicense returns the result or rethrows
ValidateFallback(s, licenseKey, error, offlineResult) ==
    LET s1 == IF s.license.present /\ s.license.license_key = licenseKey
              THEN UpdateValidation(s, offlineResult)
              ELSE s
    IN  IF offlineResult.valid
        THEN [s |-> s1, returns |-> TRUE]
        ELSE [s |-> ValidatePersistError(
                        [StopAutoValidation(s1) EXCEPT !.currentAutoLicenseKey = NoKey],
                        licenseKey, error),
              returns |-> FALSE]

\* the offline fallback of the catch block is taken
TakesFallback(error) == config.offlineFallbackEnabled /\ ValidateIsNetworkFailure(error)

(***************************************************************************)
(* Public operations, up to their first await.                             *)
(* origin: "manual" the host called, "auto" the validation timer,          *)
(*         "timer" the heartbeat timer, "init" initialize().               *)
(* The host calls nothing on an instance it has destroyed ("after calling  *)
(* destroy(), the SDK instance should not be used").                       *)
(***************************************************************************)
\* activate(licenseKey)
Activate(licenseKey) ==
    /\ ~destroyed
    /\ IF ~config.productSlug
       THEN Commit(S, Raised("activate", "manual", "ConfigurationError", NoError))
       ELSE /\ CanCall
            /\ Commit(AddCall(S, Call("activate", licenseKey, "manual")),
                      Ret("activate", "await", "manual"))

\* Faulty variant of Deactivate: the cached license is not looked at.
DeactivateWithoutLicenseCheck ==
    /\ ~destroyed
    /\ IF ~config.productSlug
       THEN Commit(S, Raised("deactivate", "manual", "ConfigurationError", NoError))
       ELSE /\ CanCall
            /\ Commit(AddCall(S, Call("deactivate", license.license_key, "manual")),
                      Ret("deactivate", "await", "manual"))

\* deactivate()
Deactivate ==
    /\ ~destroyed
    /\ IF ~config.productSlug
       THEN Commit(S, Raised("deactivate", "manual", "ConfigurationError", NoError))
       ELSE IF ~license.present
       THEN Commit(S, Raised("deactivate", "manual", "no_license", NoError))
       ELSE /\ CanCall
            /\ Commit(AddCall(S, Call("deactivate", license.license_key, "manual")),
                      Ret("deactivate", "await", "manual"))

\* validateLicense(licenseKey) called by origin, from state s
ValidateBegin(s, licenseKey, origin) ==
    IF ~config.productSlug
    THEN Commit(s, [Raised("validateLicense", origin, "ConfigurationError", NoError)
                       EXCEPT !.key = licenseKey])
    ELSE /\ CanCall
         /\ Commit(AddCall(s, Call("validate", licenseKey, origin)),
                   [Ret("validateLicense", "await", origin) EXCEPT !.key = licenseKey])

\* validateLicense(licenseKey) called by the host
ValidateLicense(licenseKey) == ~destroyed /\ ValidateBegin(S, licenseKey, "manual")

\* heartbeat() called by origin
\* Faulty variant of HeartbeatCalled: the product slug is not looked at.
HeartbeatCalledWithoutSlugCheck(origin) ==
    /\ CanCall
    /\ Commit(AddCall(S, Call("heartbeat", license.license_key, origin)),
              Ret("heartbeat", "await", origin))

HeartbeatCalled(origin) ==
    IF ~config.productSlug
    THEN Commit(S, Raised("heartbeat", origin, "ConfigurationError", NoError))
    ELSE /\ CanCall
         /\ Commit(HeartbeatBegin(S, origin),
                   Ret("heartbeat", IF license.present THEN "await" ELSE "return", origin))

\* heartbeat() called by the host
Heartbeat == ~destroyed /\ HeartbeatCalled("manual")

\* syncOfflineAssets() called from state s by origin
SyncCalled(s, origin) ==
    /\ SyncSkipped(s) \/ CanCall
    /\ Commit(SyncOfflineAssets(s),
              Ret("syncOfflineAssets",
                  IF SyncSkipped(s) THEN "skipped"
                  ELSE IF SyncOfflineAssets(s).syncingOfflineAssets THEN "await"
                  ELSE "return",
                  origin))

\* syncOfflineAssets() called by the host
SyncOfflineAssetsCalled == ~destroyed /\ SyncCalled(S, "manual")

\* verifyCachedOffline() ends, called by the host: it returns v.res, or raises
\* what left its try block
VerifyReturns(s, v, signed, keySource, before) ==
    Commit(s, IF v.raised # Null
              THEN [Raised("verifyCachedOffline", "manual", v.raised, NoError) EXCEPT
                       !.signed = signed, !.keySource = keySource,
                       !.lastSeenBefore = before]
              ELSE VerifyRet("verifyCachedOffline", "manual", v.res, signed, keySource,
                             before))

\* verifyCachedOffline() called by the host
VerifyCachedOffline ==
    /\ ~destroyed
    /\ LET b == VerifyCachedOfflineBegin(S, Call("signing_key", EmptyStr, "verify"))
       IN  IF b.done
           THEN VerifyReturns(b.s, b, b.signed, b.keySource, lastSeen)
           ELSE /\ CanCall
                /\ Commit(b.s, Ret("verifyCachedOffline", "await", "manual"))

\* quickVerifyCachedOfflineLocal() applied to the cache as it is
QuickVerify ==
    /\ ~destroyed
    /\ Commit(S, VerifyRet("quickVerifyCachedOfflineLocal", "manual",
                           QuickVerifyCachedOfflineLocal(S), offlineToken,
                           IF QuickVerifyCachedOfflineLocal(S).present
                           THEN "cached" ELSE Null,
                           lastSeen))

\* checkEntitlement(entitlementKey), hasEntitlement(entitlementKey) and
\* getStatus() called by the host: synchronous reads of the cache
CheckEntitlementCalled(entitlementKey) ==
    /\ ~destroyed
    /\ Commit(S, [Returned("checkEntitlement", "manual") EXCEPT
                     !.arg = entitlementKey,
                     !.ent = CheckEntitlement(S, entitlementKey)])

HasEntitlementCalled(entitlementKey) ==
    /\ ~destroyed
    /\ Commit(S, [Returned("hasEntitlement", "manual") EXCEPT
                     !.arg = entitlementKey,
                     !.has = HasEntitlement(S, entitlementKey)])

GetStatusCalled ==
    /\ ~destroyed
    /\ Commit(S, [Returned("getStatus", "manual") EXCEPT !.state = GetStatus(S)])

\* initialize()
Initialize ==
    /\ ~destroyed
    /\ LET quick == QuickVerifyCachedOfflineLocal(S)
           s1 == IF config.offlineFallbackEnabled /\ quick.present
                 THEN UpdateValidation(S, quick)
                 ELSE S
           s2 == StartHeartbeat(StartAutoValidation(s1, license.license_key))
       IN  IF ~license.present
           THEN Commit(S, Returned("initialize", "manual"))
           ELSE IF ~config.apiKey
           THEN Commit(s1, Returned("initialize", "manual"))
           ELSE IF ~config.productSlug
           THEN Commit(s2, Returned("initialize", "manual"))
           ELSE /\ CanCall
                /\ Commit(AddCall(s2, Call("validate", license.license_key, "init")),
                          Returned("initialize", "manual"))

\* reset()
Reset ==
    /\ ~destroyed
    /\ Commit([CacheClear(StopOfflineRefresh(StopConnectivityPolling(StopHeartbeat(
                   StopAutoValidation(S)))))
                  EXCEPT !.currentAutoLicenseKey = NoKey, !.wentOfflineFor = NoKey],
              [Returned("reset", "manual") EXCEPT !.delivered = Delivered(S, "sdk:reset")])

\* destroy()
Destroy ==
    /\ ~destroyed
    /\ LET s1 == [CacheClear(StopOfflineRefresh(StopConnectivityPolling(StopHeartbeat(
                      StopAutoValidation([S EXCEPT !.destroyed = TRUE])))))
                     EXCEPT !.eventListeners = {}, !.currentAutoLicenseKey = NoKey,
                            !.wentOfflineFor = NoKey]
       IN  Commit(s1, [Returned("destroy", "manual") EXCEPT
                          !.delivered = Delivered(s1, "sdk:destroyed")])

\* on(event, callback) and off(event, callback) for the one handler the host
\* has per event
On(event) ==
    /\ ~destroyed
    /\ Commit([S EXCEPT !.eventListeners = @ \cup {event}], Returned("on", "manual"))

Off(event) ==
    /\ ~destroyed
    /\ Commit([S EXCEPT !.eventListeners = @ \ {event}], Returned("off", "manual"))

(***************************************************************************)
(* Timer callbacks.                                                        *)
(***************************************************************************)
\* performAndReschedule of startAutoValidation
ValidationTick ==
    /\ validationTimer # NoKey
    /\ IF ~config.productSlug
       THEN Commit(S, Ret("validationTick", "tick", "auto"))
       ELSE /\ CanCall
            /\ Commit(AddCall(S, Call("validate", validationTimer, "auto")),
                      Ret("validationTick", "tick", "auto"))

\* the interval callback of startHeartbeat
HeartbeatTick ==
    /\ heartbeatTimer
    /\ IF ~config.productSlug
       THEN Commit(S, Ret("heartbeatTick", "tick", "timer"))
       ELSE /\ CanCall
            /\ Commit(HeartbeatBegin(S, "timer"), Ret("heartbeatTick", "tick", "timer"))

\* healthCheck of startConnectivityPolling, up to its fetch
ConnectivityTick ==
    /\ connectivityTimer
    /\ CanCall
    /\ Commit(AddCall(S, Call("health", EmptyStr, "probe")),
              Ret("connectivityTick", "tick", "probe"))

\* the interval callback of scheduleOfflineRefresh
OfflineRefreshTick ==
    /\ offlineRefreshTimer
    /\ SyncCalled(S, "refresh")

(***************************************************************************)
(* The network answers a request: the awaiting handler resumes.            *)
(***************************************************************************)
\* the state after an attempt of request c succeeded (apiCall returns)
Answered(c) == ApiCallSuccess(RemoveCall(S, c))

\* the state after an attempt of request c failed with error e
Failed(c, e) == ApiCallFailure(RemoveCall(S, c), e)

\* apiCall sleeps and tries again, the failed attempt having raised one of E
RetryAttemptWith(E) ==
    \E c \in InFlight, e \in E :
        /\ c.op # "health"
        /\ ShouldRetry(c, e)
        /\ Commit(AddCall(Failed(c, e), NextAttempt(c)),
                  After(c, [Ret(c.op, "retry", c.origin) EXCEPT
                               !.error = e, !.key = c.key, !.delay = RetryDelay(c)]))

RetryAttempt == RetryAttemptWith(Errors)

\* validateLicense returns res to its caller; the validation timer chains a
\* heartbeat
ValidateReturns(s, c, res, error, offlineResult, reported) ==
    Commit(IF c.origin = "auto" THEN HeartbeatBegin(s, "auto") ELSE s,
           After(c, [Returned("validateLicense", c.origin) EXCEPT
                        !.key = c.key, !.res = res, !.error = error,
                        !.offlineResult = offlineResult, !.reported = reported]))

\* validateLicense rethrows error
ValidateRaises(s, c, error, offlineResult) ==
    Commit(s, After(c, [Raised("validateLicense", c.origin, error.type, error) EXCEPT
                           !.key = c.key, !.offlineResult = offlineResult]))

\* validateLicense once verifyCachedOffline ended with v: an error raised by
\* it leaves the catch block of validateLicense as it is
ValidateAfterOffline(s, c, error, v) ==
    LET f == ValidateFallback(s, c.key, error, v.res)
    IN  IF v.raised # Null
        THEN Commit(s, [Raised("validateLicense", c.origin, v.raised, NoError) EXCEPT
                           !.key = c.key])
        ELSE IF f.returns
        THEN ValidateReturns(f.s, c, v.res, error, v.res, {})
        ELSE ValidateRaises(f.s, c, error, v.res)

ActivateResponds ==
    \E c \in InFlight :
        /\ c.op = "activate"
        /\ \/ Commit(ActivateSucceeded(Answered(c), c.key),
                     After(c, [Returned("activate", c.origin) EXCEPT !.key = c.key]))
           \/ \E e \in Errors :
                /\ ~ShouldRetry(c, e)
                /\ Commit(Failed(c, e),
                          After(c, [Raised("activate", c.origin, e.type, e) EXCEPT
                                       !.key = c.key]))

DeactivateResponds ==
    \E c \in InFlight :
        /\ c.op = "deactivate"
        /\ \/ Commit(DeactivateSucceeded(Answered(c)),
                     After(c, [Returned("deactivate", c.origin) EXCEPT !.key = c.key]))
           \/ \E e \in Errors :
                /\ ~ShouldRetry(c, e)
                /\ Commit(Failed(c, e),
                          After(c, [Raised("deactivate", c.origin, e.type, e) EXCEPT
                                       !.key = c.key]))

\* heartbeat() rejects with e: the host receives the error of its own call;
\* the callbacks of the two timers catch it and log it
HeartbeatRejected(c, e) ==
    IF c.origin = "manual"
    THEN Raised("heartbeat", c.origin, e.type, e)
    ELSE [Ret("heartbeat", "logged", c.origin) EXCEPT !.error = e]

HeartbeatResponds ==
    \E c \in InFlight :
        /\ c.op = "heartbeat"
        /\ \/ Commit(Answered(c), After(c, Returned("heartbeat", c.origin)))
           \/ \E e \in Errors :
                /\ ~ShouldRetry(c, e)
                /\ Commit(Failed(c, e), After(c, HeartbeatRejected(c, e)))

ValidateRespondsWith(E) ==
    \E c \in InFlight :
        /\ c.op = "validate"
        /\ \/ \E valid \in BOOLEAN, ents \in EntSets :
                LET raw == [valid |-> valid, ents |-> ents,
                            code |-> IF valid THEN Null ELSE "invalid"]
                    v == ValidateSucceeded(Answered(c), c.key, raw)
                IN  ValidateReturns(v.s, c, v.res, NoError, NoResult, raw.ents)
           \/ \E e \in E :
                /\ ~ShouldRetry(c, e)
                /\ IF TakesFallback(e)
                   THEN LET b == VerifyCachedOfflineBegin(
                                     Failed(c, e),
                                     [Call("signing_key", c.key, "validate") EXCEPT
                                         !.caller = c.origin, !.error = e])
                        IN  IF b.done
                            THEN ValidateAfterOffline(b.s, c, e, b)
                            ELSE Commit(b.s, Ret("validateLicense", "await", c.origin))
                   ELSE ValidateRaises(ValidatePersistError(Failed(c, e), c.key, e),
                                       c, e, NoResult)

ValidateResponds == ValidateRespondsWith(Errors)

\* the continuation of getSigningKey's caller; pub is Null when getSigningKey
\* raised (the request failed or the answer carries no public_key)
SigningKeyResolved(s, c, pub) ==
    LET v == VerifyCachedOfflineResume(s, c, pub)
        src == IF pub = Null THEN "failed" ELSE "fetched"
    IN  CASE c.origin = "verify" ->
               VerifyReturns(v.s, v, c.signed, src, s.lastSeen)
          [] c.origin = "validate" ->
               ValidateAfterOffline(v.s, [c EXCEPT !.origin = c.caller], c.error, v)
          [] OTHER ->
               Commit(SyncKeyFetched(s, c, pub),
                      Ret("syncOfflineAssets", IF pub = Null THEN "failed" ELSE "return",
                          c.origin))

SigningKeyResponds ==
    \E c \in InFlight :
        /\ c.op = "signing_key"
        /\ \/ \E hasKey \in BOOLEAN :
                SigningKeyResolved(Answered(c), c, IF hasKey THEN c.signed.kid ELSE Null)
           \/ \E e \in Errors :
                /\ ~ShouldRetry(c, e)
                /\ SigningKeyResolved(Failed(c, e), c, Null)

\* the offline tokens the service may answer for license key k
IssuedTokens(k) ==
    { Token(k, (Pivot + 10 * DayMs) \div SecMs, KeyId, "good", {EntPro}) }

OfflineTokenResponds ==
    \E c \in InFlight :
        /\ c.op = "offline_token"
        /\ \/ \E offline \in IssuedTokens(c.key) :
                Commit(SyncTokenFetched(Answered(c), c, offline),
                       Ret("syncOfflineAssets",
                           IF SyncTokenFetched(Answered(c), c, offline).syncingOfflineAssets
                           THEN "await" ELSE "return",
                           c.origin))
           \/ \E e \in Errors :
                /\ ~ShouldRetry(c, e)
                /\ Commit(SyncFailed(Failed(c, e)), Ret("syncOfflineAssets", "failed", c.origin))

\* healthCheck after its fetch resolved
HealthCheckReachable(s) ==
    LET s1 == BackOnline(s)
        s2 == IF s1.currentAutoLicenseKey # NoKey /\ s1.validationTimer = NoKey
              THEN StartAutoValidation(s1, s1.currentAutoLicenseKey)
              ELSE s1
    IN  StopConnectivityPolling(IF s.online THEN s ELSE SyncOfflineAssets(s2))

\* the HTTP statuses the health endpoint answers with
HealthStatuses == {200, 503}

\* the fetch of healthCheck resolves with a response of some status, or rejects
HealthResponds ==
    \E c \in InFlight :
        /\ c.op = "health"
        /\ \/ \E status \in HealthStatuses :
                Commit(HealthCheckReachable(RemoveCall(S, c)),
                       [Returned("healthCheck", "probe") EXCEPT
                           !.status = status,
                           !.sync = IF online THEN Null
                                    ELSE IF SyncSkipped(S) THEN "skipped"
                                    ELSE "called"])
           \/ Commit(RemoveCall(S, c), Ret("healthCheck", "failed", "probe"))

(***************************************************************************)
(* Specifications.                                                         *)
(***************************************************************************)
\* a store without any key under the prefix
EmptyStore ==
    /\ license = NoLicense
    /\ offlineToken = NoToken
    /\ publicKeys = {}
    /\ lastSeen = NoTs

\* the instance fields as the constructor leaves them
FreshInstance ==
    /\ validationTimer = NoKey
    /\ heartbeatTimer = FALSE
    /\ connectivityTimer = FALSE
    /\ offlineRefreshTimer = FALSE
    /\ online = TRUE
    /\ currentAutoLicenseKey = NoKey
    /\ syncingOfflineAssets = FALSE
    /\ destroyed = FALSE
    /\ calls = EmptyBag
    /\ emitted = Null
    /\ lastNetworkEvent = Null
    /\ wentOfflineFor = NoKey
    /\ eventListeners = {}
    /\ live = NoIntervals
    /\ ret = NoRet

\* DEFAULT_CONFIG
DefaultConfig ==
    [productSlug |-> FALSE, apiKey |-> FALSE,
     autoValidateInterval |-> 3600000, heartbeatInterval |-> 300000,
     offlineFallbackEnabled |-> FALSE, maxOfflineDays |-> 0,
     maxClockSkewMs |-> DefaultSkewMs, maxRetries |-> 3, retryDelay |-> SecMs]

\* the configurations of the life-cycle specification: both timers on with
\* the offline fallback, either timer disabled, retries allowed, no product slug
Profile(slug, av, hb, fb, mr) ==
    [DefaultConfig EXCEPT !.productSlug = slug, !.apiKey = TRUE,
                          !.autoValidateInterval = av, !.heartbeatInterval = hb,
                          !.offlineFallbackEnabled = fb, !.maxRetries = mr]

Profiles ==
    { Profile(TRUE, 3600000, 300000, TRUE, 0),
      Profile(TRUE, 0, 300000, FALSE, 0),
      Profile(TRUE, 3600000, -1000, FALSE, MaxRetriesBound),
      Profile(FALSE, 3600000, 300000, FALSE, 0) }

\* the license key the host of the life-cycle specification uses
HostKeys == {KeyA}

\* The life cycle of one instance over an empty store: the host's calls, the
\* timers and the network.
Init ==
    /\ FreshInstance
    /\ EmptyStore
    /\ config \in Profiles
    /\ cryptoAvailable = TRUE
    /\ now = Pivot + SecMs

Next ==
    \/ \E k \in HostKeys : Activate(k)
    \/ Deactivate
    \/ \E k \in HostKeys : ValidateLicense(k)
    \/ Heartbeat
    \/ SyncOfflineAssetsCalled
    \/ Initialize
    \/ Reset
    \/ Destroy
    \/ ValidationTick
    \/ HeartbeatTick
    \/ ConnectivityTick
    \/ OfflineRefreshTick
    \/ RetryAttempt
    \/ ActivateResponds
    \/ DeactivateResponds
    \/ HeartbeatResponds
    \/ ValidateResponds
    \/ SigningKeyResponds
    \/ OfflineTokenResponds
    \/ HealthResponds

Spec == Init /\ [][Next]_vars

\* Offline verification as a function of the cache, the configuration and the
\* clock: every cache content, then the verification applied to it.
CachedLicenses ==
    {NoLicense} \cup
    { [present |-> TRUE, license_key |-> k, activated_at |-> Pivot - DayMs,
       last_validated |-> Pivot, validation |-> NoResult] : k \in Keys }

CachedTokens ==
    {NoToken} \cup
    { Token(k, exp, kid, sig, {}) :
        k \in TokenKeys, exp \in ExpChoices, kid \in {Null, KeyId}, sig \in SigKinds }

InitVerify ==
    /\ FreshInstance
    /\ license \in CachedLicenses
    /\ offlineToken \in CachedTokens
    /\ publicKeys \in {{}, {KeyId}}
    /\ lastSeen \in {NoTs, Pivot}
    /\ now \in ClockValues
    /\ cryptoAvailable \in BOOLEAN
    /\ config \in { [DefaultConfig EXCEPT !.productSlug = TRUE, !.apiKey = TRUE,
                                          !.offlineFallbackEnabled = TRUE,
                                          !.maxOfflineDays = days,
                                          !.maxRetries = 0] :
                      days \in {0, GraceDays} }

NextVerify ==
    \/ VerifyCachedOffline
    \/ QuickVerify
    \/ SigningKeyResponds

SpecVerify == InitVerify /\ [][NextVerify]_vars

\* The timers and the network of an instance the host only activates: the
\* validation requests are answered with every kind of HTTP error.
NetStatuses == {404, 408, 429, 500, 503}
NetErrors == {TransportError} \cup {APIError(st) : st \in NetStatuses}

NetProfiles ==
    { Profile(TRUE, 3600000, 300000, FALSE, MaxRetriesBound),
      Profile(TRUE, 3600000, 300000, TRUE, 0) }

InitNet ==
    /\ FreshInstance
    /\ EmptyStore
    /\ config \in NetProfiles
    /\ cryptoAvailable = TRUE
    /\ now = Pivot + SecMs

NextNet ==
    \/ \E k \in HostKeys : Activate(k)
    \/ ActivateResponds
    \/ ValidationTick
    \/ HeartbeatTick
    \/ ConnectivityTick
    \/ RetryAttemptWith(NetErrors)
    \/ ValidateRespondsWith(NetErrors)
    \/ HeartbeatResponds
    \/ SigningKeyResponds
    \/ OfflineTokenResponds
    \/ HealthResponds

SpecNet == InitNet /\ [][NextNet]_vars

\* The retry loop of apiCall, driven by validateLicense on an instance with
\* no license: every attempt may be answered with any of the error statuses
\* below, with a JSON body or not, or not be answered at all.
RetryBound == 2
RetryStatuses == {400, 401, 404, 408, 422, 429, 499, 500, 501, 502, 503, 599}
RetryErrors ==
    {TransportError} \cup
    {ResponseError(st, json) : st \in RetryStatuses, json \in BOOLEAN}

RetryProfiles ==
    { [Profile(TRUE, 0, 0, FALSE, mr) EXCEPT !.retryDelay = rd] :
          mr \in 0..RetryBound, rd \in {SecMs, 250} }

InitRetry ==
    /\ FreshInstance
    /\ EmptyStore
    /\ config \in RetryProfiles
    /\ cryptoAvailable = TRUE
    /\ now = Pivot + SecMs

NextRetry ==
    \/ \E k \in HostKeys : ValidateLicense(k)
    \/ RetryAttemptWith(RetryErrors)
    \/ ValidateRespondsWith(RetryErrors)
    \/ ConnectivityTick
    \/ HealthResponds

SpecRetry == InitRetry /\ [][NextRetry]_vars

\* The time checks of offline verification at their boundaries: the key of
\* the token is cached and the signing primitive is there; the clock stands
\* around LastSeenTimestamp - skew and around last_validated + grace period.
\* A license validated under a clock that was set back after its activation
\* has last_validated before activated_at.
BoundaryClocks ==
    { Pivot - DefaultSkewMs - SecMs, Pivot - DefaultSkewMs, Pivot - DefaultSkewMs + SecMs,
      Pivot + SecMs,
      Pivot + GraceDays * DayMs - SecMs, Pivot + GraceDays * DayMs,
      Pivot + GraceDays * DayMs + SecMs }

BoundaryLicenses ==
    { [present |-> TRUE, license_key |-> k, activated_at |-> at,
       last_validated |-> lv, validation |-> NoResult] :
          k \in Keys,
          at \in {Pivot - DayMs, Pivot}, lv \in {Pivot - DayMs, Pivot} }

BoundaryTokens ==
    { Token(KeyA, exp, KeyId, sig, {}) : exp \in ExpChoices, sig \in {"good", "bad"} }

InitBoundary ==
    /\ FreshInstance
    /\ license \in BoundaryLicenses
    /\ offlineToken \in BoundaryTokens
    /\ publicKeys = {KeyId}
    /\ lastSeen \in {NoTs, Pivot}
    /\ now \in BoundaryClocks
    /\ cryptoAvailable = TRUE
    /\ config \in { [DefaultConfig EXCEPT !.productSlug = TRUE, !.apiKey = TRUE,
                                          !.offlineFallbackEnabled = TRUE,
                                          !.maxOfflineDays = days,
                                          !.maxRetries = 0] :
                      days \in {0, 1, GraceDays} }

NextBoundary ==
    \/ VerifyCachedOffline
    \/ QuickVerify

SpecBoundary == InitBoundary /\ [][NextBoundary]_vars

\* The local clock between operations: Date.now() is whatever the machine
\* says, and the user may set it forward or back at any time.
SetClock(t) ==
    /\ t # now
    /\ now' = t
    /\ ret' = Returned("clock", "manual")
    /\ UNCHANGED << config, cryptoAvailable, license, offlineToken, publicKeys,
                    lastSeen, validationTimer, heartbeatTimer, connectivityTimer,
                    offlineRefreshTimer, online, currentAutoLicenseKey,
                    syncingOfflineAssets, destroyed, calls, emitted,
                    lastNetworkEvent, wentOfflineFor, eventListeners, live >>

\* An activated instance with a good offline token and its key cached, last
\* seen at Pivot; the host validates and verifies offline while the clock is
\* set back by less than the allowed skew, by more, or set forward.
WanderingClocks ==
    { Pivot - DefaultSkewMs - SecMs, Pivot - SecMs, Pivot + SecMs, Pivot + DayMs }

InitClock ==
    /\ FreshInstance
    /\ license = [present |-> TRUE, license_key |-> KeyA, activated_at |-> Pivot,
                  last_validated |-> Pivot, validation |-> NoResult]
    /\ offlineToken = Token(KeyA, (Pivot + 10 * DayMs) \div SecMs, KeyId, "good", {})
    /\ publicKeys = {KeyId}
    /\ lastSeen = Pivot
    /\ now = Pivot + SecMs
    /\ cryptoAvailable = TRUE
    /\ config \in { Profile(TRUE, 0, 0, fb, 0) : fb \in BOOLEAN }

NextClock ==
    \/ \E t \in WanderingClocks : SetClock(t)
    \/ \E k \in HostKeys : ValidateLicense(k)
    \/ ValidateResponds
    \/ VerifyCachedOffline

SpecClock == InitClock /\ [][NextClock]_vars

\* A license last validated online at Pivot, with an offline token that has no
\* expiry and a grace period of GraceDays; from then on the network is down:
\* every validation request fails in transport and falls back to the cached
\* token, while the clock moves forward past the end of the grace period.
GraceClocks ==
    { Pivot + SecMs, Pivot + 4 * DayMs, Pivot + 8 * DayMs, Pivot + 12 * DayMs }

AdvanceClock == \E t \in GraceClocks : t > now /\ SetClock(t)

InitGrace ==
    /\ FreshInstance
    /\ license = [present |-> TRUE, license_key |-> KeyA, activated_at |-> Pivot,
                  last_validated |-> Pivot,
                  validation |-> Result(TRUE, FALSE, Null, {})]
    /\ offlineToken = Token(KeyA, 0, KeyId, "good", {})
    /\ publicKeys = {KeyId}
    /\ lastSeen = Pivot
    /\ now = Pivot + SecMs
    /\ cryptoAvailable = TRUE
    /\ config \in { [Profile(TRUE, av, 0, TRUE, 0) EXCEPT !.maxOfflineDays = GraceDays] :
                      av \in {0, 3600000} }

NextGrace ==
    \/ AdvanceClock
    \/ Initialize
    \/ \E k \in HostKeys : ValidateLicense(k)
    \/ ValidationTick
    \/ ValidateRespondsWith({TransportError})
    \/ VerifyCachedOffline

SpecGrace == InitGrace /\ [][NextGrace]_vars

\* A host that activates KeyA and validates another key, KeyB, on the same
\* instance; the validation timer validates KeyA.
OtherKeys == {KeyB}

NextOtherKey ==
    \/ Activate(KeyA)
    \/ ActivateResponds
    \/ \E k \in OtherKeys : ValidateLicense(k)
    \/ ValidationTick
    \/ ValidateResponds
    \/ SigningKeyResponds
    \/ OfflineTokenResponds
    \/ HeartbeatResponds

SpecOtherKey == Init /\ [][NextOtherKey]_vars

\* The synchronous queries over every shape of the cached license: none, one
\* without a validation, and one whose validation is valid or not, obtained
\* online or offline, with entitlements that expire at Pivot or never.
EntTeamOld == [key |-> "team", expires_at |-> Pivot]
QueryEntSets == EntSets \cup { {EntPro, EntTeamOld} }

QueryLicenses ==
    {NoLicense} \cup
    { [present |-> TRUE, license_key |-> KeyA, activated_at |-> Pivot - DayMs,
       last_validated |-> Pivot - SecMs, validation |-> v] :
          v \in {NoResult} \cup
                { Result(valid, offline, IF valid THEN Null ELSE "invalid", ents) :
                      valid \in BOOLEAN, offline \in BOOLEAN, ents \in QueryEntSets } }

InitQueries ==
    /\ FreshInstance
    /\ license \in QueryLicenses
    /\ offlineToken = NoToken
    /\ publicKeys = {}
    /\ lastSeen = NoTs
    /\ now \in {Pivot - SecMs, Pivot, Pivot + SecMs}
    /\ cryptoAvailable = TRUE
    /\ config \in Profiles

NextQueries ==
    \/ \E e \in EntitlementKeys : CheckEntitlementCalled(e)
    \/ \E e \in EntitlementKeys : HasEntitlementCalled(e)
    \/ GetStatusCalled

SpecQueries == InitQueries /\ [][NextQueries]_vars

\* The host subscribes to and unsubscribes from the life-cycle events of an
\* instance it activates, resets and destroys.
HostEvents == {"sdk:reset", "sdk:destroyed"}

InitEvents ==
    /\ FreshInstance
    /\ EmptyStore
    /\ config \in Profiles
    /\ cryptoAvailable = TRUE
    /\ now = Pivot + SecMs

NextEvents ==
    \/ \E event \in HostEvents : On(event)
    \/ \E event \in HostEvents : Off(event)
    \/ \E k \in HostKeys : Activate(k)
    \/ ActivateResponds
    \/ Reset
    \/ Destroy

SpecEvents == InitEvents /\ [][NextEvents]_vars

(***************************************************************************)
(* Properties of offline verification (checked under SpecVerify).          *)
(* ret.signed is the token the verification read, ret.keySource how its    *)
(* public key was resolved, ret.lastSeenBefore the last-seen timestamp it  *)
(* compared the clock with.                                                *)
(***************************************************************************)
\* the step just taken ended a call of verifyCachedOffline()
VerifyEnded == ret.op = "verifyCachedOffline" /\ ret.kind \in {"return", "throw"}

\* the step just taken was a call of quickVerifyCachedOfflineLocal()
QuickEnded == ret.op = "quickVerifyCachedOfflineLocal" /\ ret.kind = "return"

\* the public key of the token was at hand and its signature is genuine
SignatureVerifies ==
    /\ ret.signed.present
    /\ ret.keySource \in {"cached", "fetched"}
    /\ ret.signed.sig = "good"
    /\ cryptoAvailable

\* the token is bound to another license than the cached one, or none is cached
BoundToAnotherLicense ==
    ~license.present \/ ret.signed.license_key # license.license_key

\* C3: offline verification (verifyCachedOffline and the quick variant) never
\* returns valid:true when the license key of the token's payload differs from
\* the key of the cached license or no license is cached; when the signature
\* verifies, the result is then license_mismatch.
C3_MismatchIsNeverValid ==
    (VerifyEnded \/ QuickEnded) /\ BoundToAnotherLicense =>
        /\ ~ret.res.valid
        /\ SignatureVerifies =>
              ret.kind = "return" /\ ret.res.present /\ ret.res.code = "license_mismatch"

\* C3 happens: a genuine token of KeyB, its key fetched, verified while the
\* license of KeyA (a key of the same length) is cached
C3_Witness ==
    /\ VerifyEnded
    /\ SignatureVerifies
    /\ ret.keySource = "fetched"
    /\ license.present
    /\ license.license_key = KeyA
    /\ ret.signed.license_key = KeyB
    /\ ret.res.code = "license_mismatch"

\* what a check of verifyCachedOffline finds on the token that was read
CheckFails(code) ==
    CASE code = "no_offline_token" -> ~ret.signed.present
      [] code = "no_public_key" -> ret.keySource = "failed"
      [] code = "verification_error" ->
             ret.signed.sig \in {"missing", "garbled"} \/ ~cryptoAvailable
      [] code = "signature_invalid" -> ret.signed.sig # "good"
      [] code = "license_mismatch" -> BoundToAnotherLicense
      [] code = "expired" -> TokenExpired(ret.signed)
      [] code = "grace_period_expired" -> GraceExceeded(ret.signed, license)
      [] code = "clock_tamper" -> ClockTampered([lastSeen |-> ret.lastSeenBefore])

RECURSIVE FirstFailure(_)
\* the first check of `order` that fails, Null when all pass
FirstFailure(order) ==
    IF order = << >> THEN Null
    ELSE IF CheckFails(Head(order)) THEN Head(order)
    ELSE FirstFailure(Tail(order))

\* the result of a verification whose checks are those of `order`
ResultOf(order) ==
    [valid |-> FirstFailure(order) = Null, offline |-> TRUE, code |-> FirstFailure(order)]

\* what verifyCachedOffline returned
Outcome == [valid |-> ret.res.valid, offline |-> ret.res.offline, code |-> ret.res.code]

\* the six checks as the specification lists them
ListedOrder ==
    << "no_offline_token", "signature_invalid", "license_mismatch", "expired",
       "grace_period_expired", "clock_tamper" >>

\* the checks as the code makes them
CodeOrder ==
    << "no_offline_token", "no_public_key", "verification_error", "signature_invalid",
       "license_mismatch", "expired", "grace_period_expired", "clock_tamper" >>

\* C4 as stated: verifyCachedOffline returns the code of the first failing
\* check among no_offline_token, signature_invalid, license_mismatch, expired,
\* grace_period_expired, clock_tamper, and {valid:true, offline:true} when all
\* six pass.
C4_ListedOrder ==
    ret.op = "verifyCachedOffline" /\ ret.kind = "return" => Outcome = ResultOf(ListedOrder)

\* C4, amended: verifyCachedOffline returns the code of the first failing check
\* among no_offline_token, no_public_key (the key is not cached and cannot be
\* fetched), verification_error (the signature check raises), signature_invalid,
\* license_mismatch, expired, grace_period_expired, clock_tamper, and
\* {valid:true, offline:true} only when every check passes.
C4_CodeOrder ==
    ret.op = "verifyCachedOffline" /\ ret.kind = "return" => Outcome = ResultOf(CodeOrder)

\* C4 happens: a genuine token that is both expired and bound to another
\* license yields license_mismatch
C4_Witness ==
    /\ VerifyEnded
    /\ SignatureVerifies
    /\ license.present
    /\ BoundToAnotherLicense
    /\ TokenExpired(ret.signed)
    /\ ret.res.code = "license_mismatch"

\* the codes of a failed verification
FailureCodes ==
    { "no_offline_token", "no_public_key", "verification_error", "signature_invalid",
      "license_mismatch", "expired", "grace_period_expired", "clock_tamper" }

\* C5: verifyCachedOffline never raises: whatever the cache holds, it ends by
\* returning a ValidationResult with offline = true, and a failed verification
\* is valid:false with a code.
C5_VerifyNeverRaises ==
    VerifyEnded =>
        /\ ret.kind = "return"
        /\ ret.res.present
        /\ ret.res.offline
        /\ IF ret.res.valid THEN ret.res.code = Null ELSE ret.res.code \in FailureCodes

\* C5 happens: the key of the token is not cached, its fetch fails, and the
\* verification returns no_public_key
C5_Witness ==
    /\ VerifyEnded
    /\ ret.signed.present
    /\ ret.signed.kid # Null
    /\ ret.keySource = "failed"
    /\ ret.kind = "return"
    /\ ret.res.code = "no_public_key"

\* the verification got as far as the signing primitive
PrimitiveNeeded ==
    /\ ret.signed.present
    /\ ret.signed.sig # "missing"
    /\ ret.keySource \in {"cached", "fetched"}

\* C6 as stated: when the signing primitive is unavailable, verifyCachedOffline
\* raises a CryptoError and returns no ValidationResult.
C6_CryptoErrorSurfaces ==
    VerifyEnded /\ PrimitiveNeeded /\ ~cryptoAvailable =>
        ret.kind = "throw" /\ ret.err = "CryptoError"

(***************************************************************************)
(* Properties of the life cycle (checked under Spec).                      *)
(***************************************************************************)
\* C1: when deactivate() returns after the revoke call succeeded, the cached
\* license and the offline token are absent from the store and neither the
\* validation timer nor the heartbeat timer is running.
C1_DeactivateClearsAll ==
    ret.op = "deactivate" /\ ret.kind = "return" =>
        /\ ~license.present
        /\ ~offlineToken.present
        /\ validationTimer = NoKey
        /\ ~heartbeatTimer

\* C1 happens: deactivate() returns for the license that was activated, while
\* another request still awaits the network
C1_Witness ==
    /\ ret.op = "deactivate"
    /\ ret.kind = "return"
    /\ ret.key = KeyA
    /\ currentAutoLicenseKey = KeyA
    /\ NumCalls > 0

\* C2: with the product slug configured and no cached license, a call of
\* deactivate() raises no_license, issues no request and leaves the store and
\* both timers as they were.
C2_NoLicenseLeavesAllUntouched ==
    [][ Deactivate /\ config.productSlug /\ ~license.present =>
          /\ ret'.kind = "throw"
          /\ ret'.err = "no_license"
          /\ UNCHANGED << calls, license, offlineToken, publicKeys, lastSeen,
                          validationTimer, heartbeatTimer >> ]_vars

\* C2 happens: deactivate() raised no_license while the validation timer runs
\* and a request awaits the network
C2_Witness ==
    /\ ret.op = "deactivate"
    /\ ret.kind = "throw"
    /\ ret.err = "no_license"
    /\ validationTimer # NoKey
    /\ NumCalls > 0

\* validateLicense just ended, its request having failed in the transport with
\* the offline fallback enabled
ValidateFellBack ==
    /\ ret.op = "validateLicense"
    /\ ret.kind \in {"return", "throw"}
    /\ config.offlineFallbackEnabled
    /\ ret.error.type = "TypeError"

\* C7 as stated: when validateLicense(k) fails in the transport and the offline
\* fallback is enabled, it returns the result of verifyCachedOffline, valid or
\* not, instead of raising.
C7_FallbackResultIsReturned ==
    ValidateFellBack =>
        /\ ret.kind = "return"
        /\ ret.offlineResult.present
        /\ ret.res = ret.offlineResult

\* C8: right after activate(k) returned, checkEntitlement(e) is
\* {active:false, reason:not_found} for every key e, the cached validation
\* being valid with no entitlements; right after validateLicense(k) returned a
\* response for the cached license that lists e as an active entitlement (not
\* past its expiry), hasEntitlement(e) is true.
C8_EntitlementsAfterActivateAndValidate ==
    /\ ret.op = "activate" /\ ret.kind = "return" =>
          /\ license.validation.valid
          /\ license.validation.active_entitlements = {}
          /\ \A e \in EntitlementKeys :
                CheckEntitlement(S, e) = [NoCheck EXCEPT !.reason = "not_found"]
    /\ /\ ret.op = "validateLicense"
       /\ ret.kind = "return"
       /\ ~ret.res.offline
       /\ license.present
       /\ license.license_key = ret.key
       => \A e \in ret.res.active_entitlements :
              (e.expires_at = NoTs \/ e.expires_at >= now) => HasEntitlement(S, e.key)

\* C8 happens: validateLicense returned a response listing "pro" and
\* hasEntitlement("pro") is true
C8_Witness ==
    /\ ret.op = "validateLicense"
    /\ ret.kind = "return"
    /\ ~ret.res.offline
    /\ EntPro \in ret.res.active_entitlements
    /\ license.present
    /\ HasEntitlement(S, "pro")
    /\ ~HasEntitlement(S, "team")

\* the requests for an offline token that await the network
OfflineTokenFetches ==
    BagCardinality([c \in {x \in InFlight : x.op = "offline_token"} |-> CopiesIn(c, calls)])

\* C9: a call of syncOfflineAssets() made while an earlier one is in flight
\* returns at once and issues no request, and whatever triggers the
\* synchronisation, at most one fetch of the offline token is in flight.
C9_OneSyncInFlight ==
    [][ /\ (SyncOfflineAssetsCalled \/ OfflineRefreshTick) /\ syncingOfflineAssets =>
              /\ ret'.kind = "skipped"
              /\ UNCHANGED << calls, license, offlineToken, publicKeys, lastSeen,
                              syncingOfflineAssets >>
        /\ OfflineTokenFetches' <= 1 ]_vars

\* C9 happens: a call of syncOfflineAssets() was skipped while the fetch of an
\* earlier one awaits the network
C9_Witness ==
    /\ ret.op = "syncOfflineAssets"
    /\ ret.kind = "skipped"
    /\ ~destroyed
    /\ syncingOfflineAssets
    /\ OfflineTokenFetches = 1

\* C10: a timer whose interval is <= 0 is never started and never ticks, and
\* the timer whose interval is > 0 is running when activate() returns.
C10_DisabledTimerNeverRuns ==
    /\ config.autoValidateInterval <= 0 =>
          validationTimer = NoKey /\ ret.op # "validationTick"
    /\ config.heartbeatInterval <= 0 =>
          ~heartbeatTimer /\ ret.op # "heartbeatTick"
    /\ ret.op = "activate" /\ ret.kind = "return" =>
          /\ config.autoValidateInterval > 0 => validationTimer = ret.key
          /\ config.heartbeatInterval > 0 => heartbeatTimer

\* C10 happens: with the validation timer disabled, the heartbeat timer ticks
\* after an activation
C10_Witness ==
    /\ config.autoValidateInterval <= 0
    /\ config.heartbeatInterval > 0
    /\ currentAutoLicenseKey # NoKey
    /\ ret.op = "heartbeatTick"

(***************************************************************************)
(* Properties of the timers and of the network client (checked under       *)
(* SpecNet, Spec and SpecRetry).                                           *)
(***************************************************************************)
\* an HTTP answer that does not invalidate the license: 408, 429 or 5xx
NonDefinitive(error) ==
    /\ error.type = "APIError"
    /\ (error.status \in {408, 429} \/ (error.status >= 500 /\ error.status < 600))

\* C11 as stated: when the validation of a tick fails with HTTP 408, 429 or
\* a 5xx status (retries exhausted), the failure leaves the validation timer
\* running and the tracked license key as it was.
C11_NonDefinitiveKeepsTicking ==
    [][ /\ ret'.op = "validateLicense"
        /\ ret'.origin = "auto"
        /\ ret'.kind = "throw"
        /\ NonDefinitive(ret'.error)
        => /\ validationTimer' = validationTimer
           /\ currentAutoLicenseKey' = currentAutoLicenseKey ]_vars

\* C13: on return from reset() or destroy() the validation, heartbeat,
\* connectivity-probe and offline-refresh timers are cancelled, the tracked
\* auto-validation key is cleared and the store holds no license, no offline
\* token, no public key and no last-seen timestamp.
C13_ResetAndDestroyClearEverything ==
    ret.op \in {"reset", "destroy"} =>
        /\ validationTimer = NoKey
        /\ ~heartbeatTimer
        /\ ~connectivityTimer
        /\ ~offlineRefreshTimer
        /\ currentAutoLicenseKey = NoKey
        /\ license = NoLicense
        /\ offlineToken = NoToken
        /\ publicKeys = {}
        /\ lastSeen = NoTs

\* reset() or destroy() returned while the client was offline (the probe
\* timer was running) and requests were still in flight
C13_Witness ==
    /\ ret.op \in {"reset", "destroy"}
    /\ ret.kind = "return"
    /\ ~online
    /\ calls # EmptyBag

\* C12: the heartbeat timer, once started, is stopped only by a step of
\* deactivate, reset or destroy, whatever the heartbeat ticks run into, and
\* a heartbeat sent by the timer that fails raises nothing to the host: the
\* failure is logged.
C12_HeartbeatTimerSurvivesFailures ==
    /\ [][ heartbeatTimer /\ ~heartbeatTimer'
           => ret'.op \in {"deactivate", "reset", "destroy"} ]_vars
    /\ [](ret.origin = "timer" => ret.kind # "throw")

\* a heartbeat sent by the timer failed at the transport level, the client
\* went offline, and the heartbeat timer is still scheduled
C12_Witness ==
    /\ ret.op = "heartbeat"
    /\ ret.origin = "timer"
    /\ ret.kind = "logged"
    /\ ret.error = TransportError
    /\ emitted = "offline"
    /\ heartbeatTimer

\* C14: a step emits network:offline exactly when it flips the online flag
\* from true to false and network:online exactly when it flips it from false
\* to true; the event a step emits differs from the network event emitted
\* last before it, and the first one ever emitted is network:offline.
C14_NetworkEventsAlternate ==
    [][ /\ (emitted' = "offline") <=> (online /\ ~online')
        /\ (emitted' = "online") <=> (~online /\ online')
        /\ emitted' # Null =>
              /\ emitted' # lastNetworkEvent
              /\ lastNetworkEvent = Null => emitted' = "offline" ]_vars

\* the client is online again after having been offline, while a further
\* request and a probe are still in flight
C14_Witness ==
    /\ emitted = "online"
    /\ online
    /\ \E c \in InFlight : c.op = "health"
    /\ \E c \in InFlight : c.op # "health"

\* C15 as stated: when a transport failure took the client offline while the
\* validation timer was running for key k, the probe answer that finds the
\* client still offline puts it online again, leaves the validation timer
\* running for k, stops the probe timer and calls the offline-asset sync.
C15_ProbeRestoresScheduler ==
    [][ /\ ret'.op = "healthCheck"
        /\ ret'.kind = "return"
        /\ ~online
        /\ wentOfflineFor # NoKey
        => /\ online'
           /\ validationTimer' = wentOfflineFor
           /\ ~connectivityTimer'
           /\ ret'.sync # Null ]_vars

\* C18 as stated: a probe answered with a status outside 200..299 while the
\* client is offline leaves online false, emits no network:online and keeps
\* the probe timer running.
C18_ProbeNeedsSuccessStatus ==
    [][ /\ ret'.op = "healthCheck"
        /\ ret'.kind = "return"
        /\ ~(ret'.status >= 200 /\ ret'.status < 300)
        /\ ~online
        => /\ ~online'
           /\ emitted' # "online"
           /\ connectivityTimer' = connectivityTimer ]_vars

\* the errors the stated rule retries: a transport failure, HTTP 408, HTTP
\* 429 and the 5xx statuses other than 500 and 501
Retryable(error) ==
    \/ error.type = "TypeError"
    \/ /\ error.type = "APIError"
       /\ \/ error.status \in {408, 429}
          \/ (error.status >= 500 /\ error.status < 600 /\ error.status \notin {500, 501})

\* C16: an attempt that failed is followed by a retry only when its error is
\* a transport failure, HTTP 408, HTTP 429 or a 5xx status other than 500
\* and 501, and such an error is raised only when no retry is left; every
\* other error is raised by the attempt that met it, with no delay.
C16_RetriedIffRetryable ==
    /\ ret.kind = "retry" => Retryable(ret.error)
    /\ (ret.kind = "throw" /\ ret.error # NoError) =>
          /\ ret.delay = 0
          /\ ret.attempt < config.maxRetries => ~Retryable(ret.error)

\* with retries left, the second attempt met HTTP 500 and raised it
C16_Witness ==
    /\ ret.op = "validateLicense"
    /\ ret.kind = "throw"
    /\ ret.error = APIError(500)
    /\ ret.attempt = 1
    /\ config.maxRetries = RetryBound

\* C17: one apiCall makes at most maxRetries + 1 attempts, the attempts being
\* numbered from 0: no request in flight is numbered above maxRetries and the
\* attempt numbered maxRetries is never followed by a retry; the delay before
\* retry number n is retryDelay * 2^n.
C17_BoundedAttemptsAndBackoff ==
    /\ \A c \in InFlight : c.attempt <= config.maxRetries
    /\ ret.kind = "retry" =>
          /\ ret.attempt < config.maxRetries
          /\ ret.delay = config.retryDelay * (2 ^ ret.attempt)

\* the second retry (n = 1) is under way after a delay of twice the base
C17_Witness ==
    /\ ret.kind = "retry"
    /\ ret.attempt = 1
    /\ ret.delay = 2 * config.retryDelay
    /\ \E c \in InFlight : c.attempt = config.maxRetries

(***************************************************************************)
(* The time checks of offline verification (checked under SpecBoundary).   *)
(***************************************************************************)
\* verifyCachedOffline returned for a token without expiry whose signature
\* verifies and which is bound to the cached license
GraceCase ==
    /\ VerifyEnded
    /\ ret.kind = "return"
    /\ SignatureVerifies
    /\ ~BoundToAnotherLicense
    /\ ret.signed.exp = 0

LatestOf(a, b) == IF a >= b THEN a ELSE b

\* C19 as stated: with a grace period of N > 0 days the result is
\* grace_period_expired exactly when more than N days have passed since the
\* later of last_validated and activated_at, and never with N = 0.
C19_GraceFromLatestTimestamp ==
    GraceCase =>
        (ret.res.code = "grace_period_expired" <=>
            /\ config.maxOfflineDays > 0
            /\ now - LatestOf(license.last_validated, license.activated_at)
                  > config.maxOfflineDays * DayMs)

\* C19 amended: the elapsed time is counted from last_validated, and from
\* activated_at only when the license has no last_validated.
C19_GraceFromLastValidated ==
    GraceCase =>
        (ret.res.code = "grace_period_expired" <=>
            /\ config.maxOfflineDays > 0
            /\ now - (IF license.last_validated # NoTs
                      THEN license.last_validated ELSE license.activated_at)
                  > config.maxOfflineDays * DayMs)

\* seven days of grace, seven days and one second after the last validation,
\* which is later than the activation: grace_period_expired
C19_Witness ==
    /\ GraceCase
    /\ config.maxOfflineDays = GraceDays
    /\ license.activated_at < license.last_validated
    /\ now - license.last_validated = GraceDays * DayMs + SecMs
    /\ ret.res.code = "grace_period_expired"

\* C20: when every earlier check passes, the result is clock_tamper exactly
\* when now + maxClockSkewMs is before the stored last-seen timestamp, and
\* then the stored timestamp is left as it was.
C20_ClockTamperBoundary ==
    (VerifyEnded /\ ret.kind = "return" /\ ret.res.present
        /\ (ret.res.valid \/ ret.res.code = "clock_tamper")) =>
        /\ ret.res.code = "clock_tamper" <=>
              (ret.lastSeenBefore # NoTs
                  /\ now + config.maxClockSkewMs < ret.lastSeenBefore)
        /\ ret.res.code = "clock_tamper" => lastSeen = ret.lastSeenBefore
        /\ ret.res.valid => lastSeen = now

\* the clock stands five minutes and one second before the last-seen
\* timestamp: clock_tamper, and the timestamp is still there
C20_Witness ==
    /\ VerifyEnded
    /\ ret.res.code = "clock_tamper"
    /\ ret.lastSeenBefore = Pivot
    /\ now = Pivot - DefaultSkewMs - SecMs
    /\ lastSeen = Pivot

(***************************************************************************)
(* Entitlements, status and the remaining life-cycle properties.           *)
(***************************************************************************)
Unexpired(e) == e.expires_at = NoTs \/ e.expires_at >= now

\* C21 as stated: the valid offline result that validateLicense falls back
\* to lists the entitlements of the verified token, and once it is returned
\* for the cached license hasEntitlement holds for every unexpired
\* entitlement of that token.
C21_OfflineResultCarriesTokenEntitlements ==
    (/\ ret.op = "validateLicense"
     /\ ret.kind = "return"
     /\ ret.res.offline
     /\ ret.res.valid
     /\ license.present
     /\ license.license_key = ret.key)
    => /\ ret.res.active_entitlements = offlineToken.entitlements
       /\ \A e \in offlineToken.entitlements : Unexpired(e) => HasEntitlement(S, e.key)

\* the entitlements of the cached validation that carry the key asked for
Listed == IF license.present /\ license.validation.present
          THEN {x \in license.validation.active_entitlements : x.key = ret.arg}
          ELSE {}

\* C22: checkEntitlement and hasEntitlement start no request and change
\* neither the store, the timers nor the flags; checkEntitlement answers
\* no_license when no license or no validation is cached, expired when the
\* key is listed with an expiry in the past, and active with the entitlement
\* when the key is listed and not expired; hasEntitlement answers the active
\* field of checkEntitlement.
C22_CheckEntitlementIsAPureRead ==
    /\ [][ ret'.op \in {"checkEntitlement", "hasEntitlement"} =>
              UNCHANGED << license, offlineToken, publicKeys, lastSeen, calls,
                           validationTimer, heartbeatTimer, connectivityTimer,
                           offlineRefreshTimer, online, currentAutoLicenseKey,
                           syncingOfflineAssets, destroyed >> ]_vars
    /\ [](ret.op = "checkEntitlement" =>
            /\ (~license.present \/ ~license.validation.present) =>
                  ret.ent = [NoCheck EXCEPT !.reason = "no_license"]
            /\ \A x \in Listed :
                  IF x.expires_at # NoTs /\ x.expires_at < now
                  THEN ~ret.ent.active /\ ret.ent.reason = "expired"
                  ELSE ret.ent.active /\ ret.ent.entitlement = x)
    /\ [](ret.op = "hasEntitlement" => ret.has = (\E x \in Listed : Unexpired(x)))

\* the key asked for is listed with an expiry one second in the past
C22_Witness ==
    /\ ret.op = "checkEntitlement"
    /\ ret.arg = "team"
    /\ EntTeamOld \in license.validation.active_entitlements
    /\ now = Pivot + SecMs
    /\ ret.ent.reason = "expired"

\* C24: the status getStatus reports is determined by the cached license:
\* inactive without a license, pending without a validation, active only for
\* a valid validation not obtained offline, offline-valid only for a valid
\* one obtained offline, offline-invalid for an invalid one obtained offline
\* and invalid for an invalid one not obtained offline.
C24_StatusIsAFunctionOfTheCache ==
    ret.op = "getStatus" =>
        /\ ~license.present => ret.state = "inactive"
        /\ (license.present /\ ~license.validation.present) => ret.state = "pending"
        /\ ret.state = "active" =>
              /\ license.present /\ license.validation.present
              /\ license.validation.valid /\ ~license.validation.offline
        /\ ret.state = "offline-valid" =>
              /\ license.present /\ license.validation.present
              /\ license.validation.valid /\ license.validation.offline
        /\ (license.present /\ license.validation.present /\ ~license.validation.valid) =>
              ret.state = IF license.validation.offline THEN "offline-invalid" ELSE "invalid"
        /\ ret.state \in {"inactive", "pending", "active", "offline-valid",
                          "offline-invalid", "invalid"}

\* a valid validation obtained offline is reported as offline-valid
C24_Witness ==
    /\ ret.op = "getStatus"
    /\ license.validation.valid
    /\ license.validation.offline
    /\ ret.state = "offline-valid"

\* C23 as stated: once validateLicense returned the answer of the server for
\* the cached license, checkEntitlement answers not_found for every key that
\* is absent from the entitlements that answer reported.
C23_AbsentFromLastValidationIsNotFound ==
    (/\ ret.op = "validateLicense"
     /\ ret.kind = "return"
     /\ ~ret.res.offline
     /\ license.present
     /\ license.license_key = ret.key)
    => \A e \in EntitlementKeys :
          (~\E x \in ret.reported : x.key = e) =>
              /\ CheckEntitlement(S, e).reason = "not_found"
              /\ ~HasEntitlement(S, e)

\* C30 as stated: when one of two validateLicense calls in flight for the
\* cached key has just returned and the next step processes the answer to
\* the other, the cached validation is that last answer alone: its valid
\* flag, its code and the entitlements it reported.
C30_LastValidateWinsUnmerged ==
    [][ (/\ ret.op = "validateLicense"
         /\ ret.kind = "return"
         /\ ~ret.res.offline
         /\ license.present
         /\ \E c \in InFlight : c.op = "validate" /\ c.key = license.license_key
         /\ ret'.op = "validateLicense"
         /\ ret'.kind = "return"
         /\ ~ret'.res.offline
         /\ license'.present
         /\ ret'.key = license'.license_key)
        => license'.validation =
               Result(ret'.res.valid, FALSE, ret'.res.code, ret'.reported) ]_vars

SlugOperations == {"activate", "validateLicense", "deactivate", "heartbeat"}

\* C25: without a product slug, activate, validateLicense, deactivate and
\* heartbeat called by the host raise ConfigurationError; the raising step
\* starts no request and changes neither the store, the timers nor the
\* online flag, and no request of these operations is ever in flight, so
\* none is retried.
C25_ConfigurationErrorBeforeAnyRequest ==
    /\ [](~config.productSlug =>
            /\ (ret.op \in SlugOperations /\ ret.origin = "manual") =>
                  ret.kind = "throw" /\ ret.err = "ConfigurationError"
            /\ \A c \in InFlight :
                  c.op \notin {"activate", "validate", "deactivate", "heartbeat"}
            /\ ret.kind # "retry")
    /\ [][ (ret'.op \in SlugOperations /\ ret'.err = "ConfigurationError") =>
              UNCHANGED << license, offlineToken, publicKeys, lastSeen, calls,
                           validationTimer, heartbeatTimer, connectivityTimer,
                           offlineRefreshTimer, online, currentAutoLicenseKey >> ]_vars

\* heartbeat() raised ConfigurationError on an instance without product slug
C25_Witness ==
    /\ ~config.productSlug
    /\ ret.op = "heartbeat"
    /\ ret.origin = "manual"
    /\ ret.kind = "throw"
    /\ ret.err = "ConfigurationError"
    /\ calls = EmptyBag

\* C26 as stated: destroy() invokes the handler subscribed to sdk:destroyed
\* when it is called, as reset() invokes the handler subscribed to sdk:reset.
C26_DestroyedHandlerIsInvoked ==
    [][ /\ (ret'.op = "destroy" /\ "sdk:destroyed" \in eventListeners) =>
              "sdk:destroyed" \in ret'.delivered
        /\ (ret'.op = "reset" /\ "sdk:reset" \in eventListeners) =>
              "sdk:reset" \in ret'.delivered ]_vars

\* C29: of each of the four timers at most one interval is live, and an
\* interval is live exactly when the instance holds its handle: no interval
\* runs without a handle to clear it with.
C29_OneIntervalPerTimer ==
    /\ \A timer \in DOMAIN live : live[timer] \in {0, 1}
    /\ (live.validation = 1) <=> (validationTimer # NoKey)
    /\ (live.heartbeat = 1) <=> heartbeatTimer
    /\ (live.connectivity = 1) <=> connectivityTimer
    /\ (live.refresh = 1) <=> offlineRefreshTimer

\* initialize() has restarted the validation and the heartbeat timer of an
\* activated instance whose offline refresh is scheduled
C29_Witness ==
    /\ ret.op = "initialize"
    /\ validationTimer # NoKey
    /\ heartbeatTimer
    /\ offlineRefreshTimer
    /\ online

\* C28 as stated: whenever the online flag is false and the instance is not
\* destroyed, the connectivity-probe timer is scheduled.
C28_OfflineImpliesProbing ==
    (~online /\ ~destroyed) => connectivityTimer

\* C27 as stated: over validate and verifyCachedOffline operations, with no
\* reset or destroy, the stored last-seen timestamp never decreases, whatever
\* the local clock is set to between the operations.
C27_LastSeenNeverDecreases ==
    [][lastSeen # NoTs => (lastSeen' # NoTs /\ lastSeen' >= lastSeen)]_vars

\* C31: updateValidation never creates a cached license. A step that starts
\* with no license cached and is not the completion of an activate ends with
\* no license cached and getStatus() "inactive"; this covers the answer to a
\* validate (and its offline fallback) that was in flight when deactivate()
\* or reset() cleared the cache.
C31_UpdateValidationNeverCreates ==
    [][(~license.present /\ ~(ret'.op = "activate" /\ ret'.kind = "return"))
          => (~license'.present /\ GetStatus(S') = "inactive")]_vars

\* a validate started by the validation timer or by initialize (a license was
\* cached then) is answered as valid when no license is cached any more
C31_Witness ==
    /\ ret.op = "validateLicense"
    /\ ret.kind = "return"
    /\ ret.origin \in {"auto", "init"}
    /\ ret.res.valid
    /\ ~license.present
    /\ ~destroyed

\* C32 as stated: after a successful deactivate() and until the next
\* activate() or initialize(), the validation timer is never running. No
\* license is cached from the completion of deactivate() until an activate()
\* completes, and initialize() does nothing without one, so the timer is never
\* set while no license is cached.
C32_NoValidationTimerAfterDeactivate ==
    ~license.present => validationTimer = NoKey

\* C33 as stated: with a grace period of GraceDays and a token without expiry,
\* once more than GraceDays have passed since the last successful online
\* validation (at Pivot in SpecGrace, where no request is answered after it),
\* no offline verification returns valid, whatever offline fallbacks and
\* initializations took place in between.
C33_NoValidBeyondGrace ==
    ( /\ now > Pivot + GraceDays * DayMs
      /\ ret.op \in {"verifyCachedOffline", "validateLicense"}
      /\ ret.kind = "return"
      /\ ret.res.offline )
        => ~ret.res.valid

\* C34 as stated: the completion of a background offline-asset sync changes
\* neither the cached validation, the status getStatus() reports, nor the
\* result of hasEntitlement; only a validate that falls back to offline
\* verification replaces an online validation by an offline one.
C34_SyncLeavesValidationAlone ==
    [][ret'.op = "syncOfflineAssets"
          => /\ license'.validation = license.validation
             /\ GetStatus(S') = GetStatus(S)
             /\ \A e \in EntitlementKeys : HasEntitlement(S', e) = HasEntitlement(S, e)]_vars

\* C35 as stated: checkEntitlement never returns active:true while the cached
\* validation has valid = false.
C35_NoEntitlementOnInvalidLicense ==
    (license.present /\ license.validation.present /\ ~license.validation.valid)
        => \A e \in EntitlementKeys : ~CheckEntitlement(S, e).active

\* C36 as stated: validateLicense(k) for a key k other than the cached
\* license's leaves the cached license, the validation timer and the tracked
\* auto-validation key unchanged, whatever the server answers.
C36_OtherKeyLeavesLicenseAndTimer ==
    [][( /\ ret'.op = "validateLicense"
         /\ ret'.kind \in {"return", "throw"}
         /\ ret'.key \in OtherKeys
         /\ license.present
         /\ license.license_key \notin OtherKeys )
          => /\ license' = license
             /\ validationTimer' = validationTimer
             /\ currentAutoLicenseKey' = currentAutoLicenseKey]_vars

\* C37 as stated: whenever an offline token is in the cache, a license is too;
\* a sync in flight across deactivate() or reset() does not write its token
\* into the cleared store.
C37_TokenImpliesLicense ==
    offlineToken.present => license.present

\* C38 as stated: once destroy() has returned, no timer of the instance is
\* scheduled again and no key under the prefix is written again, whatever
\* happens to the requests that were in flight.
C38_DestroyedStaysQuiet ==
    destroyed =>
        /\ validationTimer = NoKey
        /\ ~heartbeatTimer
        /\ ~connectivityTimer
        /\ ~offlineRefreshTimer
        /\ ~license.present
        /\ ~offlineToken.present
        /\ publicKeys = {}
        /\ lastSeen = NoTs

\* C39 as stated: whenever quickVerifyCachedOfflineLocal returns a result
\* (not null), verifyCachedOffline applied to the same cache, configuration and
\* clock returns the same valid flag and the same code.
C39_QuickAgreesWithFull ==
    LET quick == QuickVerifyCachedOfflineLocal(S)
        full == VerifyCachedOfflineBegin(S, Call("signing_key", EmptyStr, "verify"))
    IN  quick.present
          => /\ full.done
             /\ full.raised = Null
             /\ full.res.valid = quick.valid
             /\ full.res.code = quick.code

\* a request of a syncOfflineAssets invocation is in flight in calls cs
SyncInFlight(cs) ==
    \E c \in BagToSet(cs) :
        \/ c.op = "offline_token"
        \/ (c.op = "signing_key" /\ c.origin = "sync")

\* C40: the in-flight flag of syncOfflineAssets is always released. A sync
\* that finishes (after success, a failed token fetch, a failed signing-key
\* fetch or a verification error) leaves the flag false; the flag is held only
\* while a request of the sync is in flight; and syncOfflineAssets() called on
\* a live instance with a cached license and the flag down is not skipped: it
\* takes the flag and issues an offline-token request.
C40_SyncFlagIsReleased ==
    [][/\ (ret'.op = "syncOfflineAssets" /\ ret'.kind \in {"return", "failed"})
            => ~syncingOfflineAssets'
       /\ syncingOfflineAssets' => SyncInFlight(calls')
       /\ ( /\ ret'.op = "syncOfflineAssets"
            /\ ~syncingOfflineAssets
            /\ ~destroyed /\ license.present /\ config.productSlug )
            => /\ ret'.kind = "await"
               /\ syncingOfflineAssets'
               /\ \E c \in BagToSet(calls') : c.op = "offline_token"]_vars

\* a sync has just ended in failure on a live instance with a cached license,
\* and the flag is down
C40_Witness ==
    /\ ret.op = "syncOfflineAssets"
    /\ ret.kind = "failed"
    /\ ~syncingOfflineAssets
    /\ license.present
    /\ ~destroyed

====
